---- MODULE Spec2Model ----
(***************************************************************************)
(* Model of the Design Analysis API (src/main.py): the POST /analyze       *)
(* handler and the pure text pipeline behind it.                           *)
(*                                                                         *)
(* A Python str is the sequence of its characters, and a character is its  *)
(* Unicode code point, a number in 0..1114111: s[i] of the code is s[i+1]  *)
(* here and len(s) is Len(s).  A string literal of the source is written   *)
(* Str("..."); a character that cannot be written in a literal of this     *)
(* language (an emoji, the backquote) is given by its code point.          *)
(***************************************************************************)
EXTENDS Integers, Sequences, FiniteSets, TLC

VARIABLES pc, text, score, categories, issues, suggestions, formatted_output

vars == <<pc, text, score, categories, issues, suggestions, formatted_output>>

(***************************************************************************)
(* String literals.                                                        *)
(***************************************************************************)
\* the characters of the literals, in runs of consecutive code points, each
\* run with the code point of its first character
LITERAL_RUNS ==
    << <<"\t\n", 9>>,
       <<"\f\r", 12>>,
       <<" !\"#$%&'()*+,-./0123456789:;<=>?@ABCDEFGHIJKLMNOPQRSTUVWXYZ[\\]^_", 32>>,
       <<"abcdefghijklmnopqrstuvwxyz{|}~", 97>>,
       <<"¡¢£¤¥¦§¨©ª«¬­®¯°±²³´µ¶·¸¹º»¼½¾¿ÀÁÂÃÄÅÆÇÈÉÊËÌÍÎÏÐÑÒÓÔÕÖ×ØÙÚÛÜÝÞß", 161>>,
       <<"àáâãäåæçèéêëìíîïðñòóôõö÷øùúûüýþÿ", 224>>,
       <<"█", 9608>>,
       <<"░", 9617>> >>

\* ord(c) of a character of the literals
literal_code ==
    LET pairs == UNION {{<<SubSeq(LITERAL_RUNS[r][1], i, i), LITERAL_RUNS[r][2] + i - 1>>
                            : i \in 1..Len(LITERAL_RUNS[r][1])}
                           : r \in 1..Len(LITERAL_RUNS)}
    IN  [c \in {p[1] : p \in pairs} |-> (CHOOSE p \in pairs : p[1] = c)[2]]

\* the str a literal denotes
Str(s) == [i \in 1..Len(s) |-> literal_code[SubSeq(s, i, i)]]

\* a list of literals
Strs(list) == [k \in 1..Len(list) |-> Str(list[k])]

(***************************************************************************)
(* Characters.  The tables are what the Unicode database of the Python     *)
(* runtime says of every code point: they are the values of str.lower(),   *)
(* str.capitalize() and str.title() character by character, of             *)
(* str.strip(), and of \w, \s and re.IGNORECASE of the re module.          *)
(***************************************************************************)
\* c.lower() is chr(LOWER_TO[k]) for c = chr(LOWER_FROM[k])
LOWER_FROM ==
    <<65, 66, 67, 68, 69, 70, 71, 72, 73, 74,
      75, 76, 77, 78, 79, 80, 81, 82, 83, 84,
      85, 86, 87, 88, 89, 90, 192, 193, 194, 195,
      196, 197, 198, 199, 200, 201, 202, 203, 204, 205,
      206, 207, 208, 209, 210, 211, 212, 213, 214, 216,
      217, 218, 219, 220, 221, 222, 256, 258, 260, 262,
      264, 266, 268, 270, 272, 274, 276, 278, 280, 282,
      284, 286, 288, 290, 292, 294, 296, 298, 300, 302,
      306, 308, 310, 313, 315, 317, 319, 321, 323, 325,
      327, 330, 332, 334, 336, 338, 340, 342, 344, 346,
      348, 350, 352, 354, 356, 358, 360, 362, 364, 366,
      368, 370, 372, 374, 376, 377, 379, 381, 385, 386,
      388, 390, 391, 393, 394, 395, 398, 399, 400, 401,
      403, 404, 406, 407, 408, 412, 413, 415, 416, 418,
      420, 422, 423, 425, 428, 430, 431, 433, 434, 435,
      437, 439, 440, 444, 452, 453, 455, 456, 458, 459,
      461, 463, 465, 467, 469, 471, 473, 475, 478, 480,
      482, 484, 486, 488, 490, 492, 494, 497, 498, 500,
      502, 503, 504, 506, 508, 510, 512, 514, 516, 518,
      520, 522, 524, 526, 528, 530, 532, 534, 536, 538,
      540, 542, 544, 546, 548, 550, 552, 554, 556, 558,
      560, 562, 570, 571, 573, 574, 577, 579, 580, 581,
      582, 584, 586, 588, 590, 880, 882, 886, 895, 902,
      904, 905, 906, 908, 910, 911, 913, 914, 915, 916,
      917, 918, 919, 920, 921, 922, 923, 924, 925, 926,
      927, 928, 929, 931, 932, 933, 934, 935, 936, 937,
      938, 939, 975, 984, 986, 988, 990, 992, 994, 996,
      998, 1000, 1002, 1004, 1006, 1012, 1015, 1017, 1018, 1021,
      1022, 1023, 1024, 1025, 1026, 1027, 1028, 1029, 1030, 1031,
      1032, 1033, 1034, 1035, 1036, 1037, 1038, 1039, 1040, 1041,
      1042, 1043, 1044, 1045, 1046, 1047, 1048, 1049, 1050, 1051,
      1052, 1053, 1054, 1055, 1056, 1057, 1058, 1059, 1060, 1061,
      1062, 1063, 1064, 1065, 1066, 1067, 1068, 1069, 1070, 1071,
      1120, 1122, 1124, 1126, 1128, 1130, 1132, 1134, 1136, 1138,
      1140, 1142, 1144, 1146, 1148, 1150, 1152, 1162, 1164, 1166,
      1168, 1170, 1172, 1174, 1176, 1178, 1180, 1182, 1184, 1186,
      1188, 1190, 1192, 1194, 1196, 1198, 1200, 1202, 1204, 1206,
      1208, 1210, 1212, 1214, 1216, 1217, 1219, 1221, 1223, 1225,
      1227, 1229, 1232, 1234, 1236, 1238, 1240, 1242, 1244, 1246,
      1248, 1250, 1252, 1254, 1256, 1258, 1260, 1262, 1264, 1266,
      1268, 1270, 1272, 1274, 1276, 1278, 1280, 1282, 1284, 1286,
      1288, 1290, 1292, 1294, 1296, 1298, 1300, 1302, 1304, 1306,
      1308, 1310, 1312, 1314, 1316, 1318, 1320, 1322, 1324, 1326,
      1329, 1330, 1331, 1332, 1333, 1334, 1335, 1336, 1337, 1338,
      1339, 1340, 1341, 1342, 1343, 1344, 1345, 1346, 1347, 1348,
      1349, 1350, 1351, 1352, 1353, 1354, 1355, 1356, 1357, 1358,
      1359, 1360, 1361, 1362, 1363, 1364, 1365, 1366, 4256, 4257,
      4258, 4259, 4260, 4261, 4262, 4263, 4264, 4265, 4266, 4267,
      4268, 4269, 4270, 4271, 4272, 4273, 4274, 4275, 4276, 4277,
      4278, 4279, 4280, 4281, 4282, 4283, 4284, 4285, 4286, 4287,
      4288, 4289, 4290, 4291, 4292, 4293, 4295, 4301, 5024, 5025,
      5026, 5027, 5028, 5029, 5030, 5031, 5032, 5033, 5034, 5035,
      5036, 5037, 5038, 5039, 5040, 5041, 5042, 5043, 5044, 5045,
      5046, 5047, 5048, 5049, 5050, 5051, 5052, 5053, 5054, 5055,
      5056, 5057, 5058, 5059, 5060, 5061, 5062, 5063, 5064, 5065,
      5066, 5067, 5068, 5069, 5070, 5071, 5072, 5073, 5074, 5075,
      5076, 5077, 5078, 5079, 5080, 5081, 5082, 5083, 5084, 5085,
      5086, 5087, 5088, 5089, 5090, 5091, 5092, 5093, 5094, 5095,
      5096, 5097, 5098, 5099, 5100, 5101, 5102, 5103, 5104, 5105,
      5106, 5107, 5108, 5109, 7312, 7313, 7314, 7315, 7316, 7317,
      7318, 7319, 7320, 7321, 7322, 7323, 7324, 7325, 7326, 7327,
      7328, 7329, 7330, 7331, 7332, 7333, 7334, 7335, 7336, 7337,
      7338, 7339, 7340, 7341, 7342, 7343, 7344, 7345, 7346, 7347,
      7348, 7349, 7350, 7351, 7352, 7353, 7354, 7357, 7358, 7359,
      7680, 7682, 7684, 7686, 7688, 7690, 7692, 7694, 7696, 7698,
      7700, 7702, 7704, 7706, 7708, 7710, 7712, 7714, 7716, 7718,
      7720, 7722, 7724, 7726, 7728, 7730, 7732, 7734, 7736, 7738,
      7740, 7742, 7744, 7746, 7748, 7750, 7752, 7754, 7756, 7758,
      7760, 7762, 7764, 7766, 7768, 7770, 7772, 7774, 7776, 7778,
      7780, 7782, 7784, 7786, 7788, 7790, 7792, 7794, 7796, 7798,
      7800, 7802, 7804, 7806, 7808, 7810, 7812, 7814, 7816, 7818,
      7820, 7822, 7824, 7826, 7828, 7838, 7840, 7842, 7844, 7846,
      7848, 7850, 7852, 7854, 7856, 7858, 7860, 7862, 7864, 7866,
      7868, 7870, 7872, 7874, 7876, 7878, 7880, 7882, 7884, 7886,
      7888, 7890, 7892, 7894, 7896, 7898, 7900, 7902, 7904, 7906,
      7908, 7910, 7912, 7914, 7916, 7918, 7920, 7922, 7924, 7926,
      7928, 7930, 7932, 7934, 7944, 7945, 7946, 7947, 7948, 7949,
      7950, 7951, 7960, 7961, 7962, 7963, 7964, 7965, 7976, 7977,
      7978, 7979, 7980, 7981, 7982, 7983, 7992, 7993, 7994, 7995,
      7996, 7997, 7998, 7999, 8008, 8009, 8010, 8011, 8012, 8013,
      8025, 8027, 8029, 8031, 8040, 8041, 8042, 8043, 8044, 8045,
      8046, 8047, 8072, 8073, 8074, 8075, 8076, 8077, 8078, 8079,
      8088, 8089, 8090, 8091, 8092, 8093, 8094, 8095, 8104, 8105,
      8106, 8107, 8108, 8109, 8110, 8111, 8120, 8121, 8122, 8123,
      8124, 8136, 8137, 8138, 8139, 8140, 8152, 8153, 8154, 8155,
      8168, 8169, 8170, 8171, 8172, 8184, 8185, 8186, 8187, 8188,
      8486, 8490, 8491, 8498, 8544, 8545, 8546, 8547, 8548, 8549,
      8550, 8551, 8552, 8553, 8554, 8555, 8556, 8557, 8558, 8559,
      8579, 9398, 9399, 9400, 9401, 9402, 9403, 9404, 9405, 9406,
      9407, 9408, 9409, 9410, 9411, 9412, 9413, 9414, 9415, 9416,
      9417, 9418, 9419, 9420, 9421, 9422, 9423, 11264, 11265, 11266,
      11267, 11268, 11269, 11270, 11271, 11272, 11273, 11274, 11275, 11276,
      11277, 11278, 11279, 11280, 11281, 11282, 11283, 11284, 11285, 11286,
      11287, 11288, 11289, 11290, 11291, 11292, 11293, 11294, 11295, 11296,
      11297, 11298, 11299, 11300, 11301, 11302, 11303, 11304, 11305, 11306,
      11307, 11308, 11309, 11310, 11311, 11360, 11362, 11363, 11364, 11367,
      11369, 11371, 11373, 11374, 11375, 11376, 11378, 11381, 11390, 11391,
      11392, 11394, 11396, 11398, 11400, 11402, 11404, 11406, 11408, 11410,
      11412, 11414, 11416, 11418, 11420, 11422, 11424, 11426, 11428, 11430,
      11432, 11434, 11436, 11438, 11440, 11442, 11444, 11446, 11448, 11450,
      11452, 11454, 11456, 11458, 11460, 11462, 11464, 11466, 11468, 11470,
      11472, 11474, 11476, 11478, 11480, 11482, 11484, 11486, 11488, 11490,
      11499, 11501, 11506, 42560, 42562, 42564, 42566, 42568, 42570, 42572,
      42574, 42576, 42578, 42580, 42582, 42584, 42586, 42588, 42590, 42592,
      42594, 42596, 42598, 42600, 42602, 42604, 42624, 42626, 42628, 42630,
      42632, 42634, 42636, 42638, 42640, 42642, 42644, 42646, 42648, 42650,
      42786, 42788, 42790, 42792, 42794, 42796, 42798, 42802, 42804, 42806,
      42808, 42810, 42812, 42814, 42816, 42818, 42820, 42822, 42824, 42826,
      42828, 42830, 42832, 42834, 42836, 42838, 42840, 42842, 42844, 42846,
      42848, 42850, 42852, 42854, 42856, 42858, 42860, 42862, 42873, 42875,
      42877, 42878, 42880, 42882, 42884, 42886, 42891, 42893, 42896, 42898,
      42902, 42904, 42906, 42908, 42910, 42912, 42914, 42916, 42918, 42920,
      42922, 42923, 42924, 42925, 42926, 42928, 42929, 42930, 42931, 42932,
      42934, 42936, 42938, 42940, 42942, 42944, 42946, 42948, 42949, 42950,
      42951, 42953, 42960, 42966, 42968, 42997, 65313, 65314, 65315, 65316,
      65317, 65318, 65319, 65320, 65321, 65322, 65323, 65324, 65325, 65326,
      65327, 65328, 65329, 65330, 65331, 65332, 65333, 65334, 65335, 65336,
      65337, 65338, 66560, 66561, 66562, 66563, 66564, 66565, 66566, 66567,
      66568, 66569, 66570, 66571, 66572, 66573, 66574, 66575, 66576, 66577,
      66578, 66579, 66580, 66581, 66582, 66583, 66584, 66585, 66586, 66587,
      66588, 66589, 66590, 66591, 66592, 66593, 66594, 66595, 66596, 66597,
      66598, 66599, 66736, 66737, 66738, 66739, 66740, 66741, 66742, 66743,
      66744, 66745, 66746, 66747, 66748, 66749, 66750, 66751, 66752, 66753,
      66754, 66755, 66756, 66757, 66758, 66759, 66760, 66761, 66762, 66763,
      66764, 66765, 66766, 66767, 66768, 66769, 66770, 66771, 66928, 66929,
      66930, 66931, 66932, 66933, 66934, 66935, 66936, 66937, 66938, 66940,
      66941, 66942, 66943, 66944, 66945, 66946, 66947, 66948, 66949, 66950,
      66951, 66952, 66953, 66954, 66956, 66957, 66958, 66959, 66960, 66961,
      66962, 66964, 66965, 68736, 68737, 68738, 68739, 68740, 68741, 68742,
      68743, 68744, 68745, 68746, 68747, 68748, 68749, 68750, 68751, 68752,
      68753, 68754, 68755, 68756, 68757, 68758, 68759, 68760, 68761, 68762,
      68763, 68764, 68765, 68766, 68767, 68768, 68769, 68770, 68771, 68772,
      68773, 68774, 68775, 68776, 68777, 68778, 68779, 68780, 68781, 68782,
      68783, 68784, 68785, 68786, 71840, 71841, 71842, 71843, 71844, 71845,
      71846, 71847, 71848, 71849, 71850, 71851, 71852, 71853, 71854, 71855,
      71856, 71857, 71858, 71859, 71860, 71861, 71862, 71863, 71864, 71865,
      71866, 71867, 71868, 71869, 71870, 71871, 93760, 93761, 93762, 93763,
      93764, 93765, 93766, 93767, 93768, 93769, 93770, 93771, 93772, 93773,
      93774, 93775, 93776, 93777, 93778, 93779, 93780, 93781, 93782, 93783,
      93784, 93785, 93786, 93787, 93788, 93789, 93790, 93791, 125184, 125185,
      125186, 125187, 125188, 125189, 125190, 125191, 125192, 125193, 125194, 125195,
      125196, 125197, 125198, 125199, 125200, 125201, 125202, 125203, 125204, 125205,
      125206, 125207, 125208, 125209, 125210, 125211, 125212, 125213, 125214, 125215,
      125216, 125217>>

LOWER_TO ==
    <<97, 98, 99, 100, 101, 102, 103, 104, 105, 106,
      107, 108, 109, 110, 111, 112, 113, 114, 115, 116,
      117, 118, 119, 120, 121, 122, 224, 225, 226, 227,
      228, 229, 230, 231, 232, 233, 234, 235, 236, 237,
      238, 239, 240, 241, 242, 243, 244, 245, 246, 248,
      249, 250, 251, 252, 253, 254, 257, 259, 261, 263,
      265, 267, 269, 271, 273, 275, 277, 279, 281, 283,
      285, 287, 289, 291, 293, 295, 297, 299, 301, 303,
      307, 309, 311, 314, 316, 318, 320, 322, 324, 326,
      328, 331, 333, 335, 337, 339, 341, 343, 345, 347,
      349, 351, 353, 355, 357, 359, 361, 363, 365, 367,
      369, 371, 373, 375, 255, 378, 380, 382, 595, 387,
      389, 596, 392, 598, 599, 396, 477, 601, 603, 402,
      608, 611, 617, 616, 409, 623, 626, 629, 417, 419,
      421, 640, 424, 643, 429, 648, 432, 650, 651, 436,
      438, 658, 441, 445, 454, 454, 457, 457, 460, 460,
      462, 464, 466, 468, 470, 472, 474, 476, 479, 481,
      483, 485, 487, 489, 491, 493, 495, 499, 499, 501,
      405, 447, 505, 507, 509, 511, 513, 515, 517, 519,
      521, 523, 525, 527, 529, 531, 533, 535, 537, 539,
      541, 543, 414, 547, 549, 551, 553, 555, 557, 559,
      561, 563, 11365, 572, 410, 11366, 578, 384, 649, 652,
      583, 585, 587, 589, 591, 881, 883, 887, 1011, 940,
      941, 942, 943, 972, 973, 974, 945, 946, 947, 948,
      949, 950, 951, 952, 953, 954, 955, 956, 957, 958,
      959, 960, 961, 963, 964, 965, 966, 967, 968, 969,
      970, 971, 983, 985, 987, 989, 991, 993, 995, 997,
      999, 1001, 1003, 1005, 1007, 952, 1016, 1010, 1019, 891,
      892, 893, 1104, 1105, 1106, 1107, 1108, 1109, 1110, 1111,
      1112, 1113, 1114, 1115, 1116, 1117, 1118, 1119, 1072, 1073,
      1074, 1075, 1076, 1077, 1078, 1079, 1080, 1081, 1082, 1083,
      1084, 1085, 1086, 1087, 1088, 1089, 1090, 1091, 1092, 1093,
      1094, 1095, 1096, 1097, 1098, 1099, 1100, 1101, 1102, 1103,
      1121, 1123, 1125, 1127, 1129, 1131, 1133, 1135, 1137, 1139,
      1141, 1143, 1145, 1147, 1149, 1151, 1153, 1163, 1165, 1167,
      1169, 1171, 1173, 1175, 1177, 1179, 1181, 1183, 1185, 1187,
      1189, 1191, 1193, 1195, 1197, 1199, 1201, 1203, 1205, 1207,
      1209, 1211, 1213, 1215, 1231, 1218, 1220, 1222, 1224, 1226,
      1228, 1230, 1233, 1235, 1237, 1239, 1241, 1243, 1245, 1247,
      1249, 1251, 1253, 1255, 1257, 1259, 1261, 1263, 1265, 1267,
      1269, 1271, 1273, 1275, 1277, 1279, 1281, 1283, 1285, 1287,
      1289, 1291, 1293, 1295, 1297, 1299, 1301, 1303, 1305, 1307,
      1309, 1311, 1313, 1315, 1317, 1319, 1321, 1323, 1325, 1327,
      1377, 1378, 1379, 1380, 1381, 1382, 1383, 1384, 1385, 1386,
      1387, 1388, 1389, 1390, 1391, 1392, 1393, 1394, 1395, 1396,
      1397, 1398, 1399, 1400, 1401, 1402, 1403, 1404, 1405, 1406,
      1407, 1408, 1409, 1410, 1411, 1412, 1413, 1414, 11520, 11521,
      11522, 11523, 11524, 11525, 11526, 11527, 11528, 11529, 11530, 11531,
      11532, 11533, 11534, 11535, 11536, 11537, 11538, 11539, 11540, 11541,
      11542, 11543, 11544, 11545, 11546, 11547, 11548, 11549, 11550, 11551,
      11552, 11553, 11554, 11555, 11556, 11557, 11559, 11565, 43888, 43889,
      43890, 43891, 43892, 43893, 43894, 43895, 43896, 43897, 43898, 43899,
      43900, 43901, 43902, 43903, 43904, 43905, 43906, 43907, 43908, 43909,
      43910, 43911, 43912, 43913, 43914, 43915, 43916, 43917, 43918, 43919,
      43920, 43921, 43922, 43923, 43924, 43925, 43926, 43927, 43928, 43929,
      43930, 43931, 43932, 43933, 43934, 43935, 43936, 43937, 43938, 43939,
      43940, 43941, 43942, 43943, 43944, 43945, 43946, 43947, 43948, 43949,
      43950, 43951, 43952, 43953, 43954, 43955, 43956, 43957, 43958, 43959,
      43960, 43961, 43962, 43963, 43964, 43965, 43966, 43967, 5112, 5113,
      5114, 5115, 5116, 5117, 4304, 4305, 4306, 4307, 4308, 4309,
      4310, 4311, 4312, 4313, 4314, 4315, 4316, 4317, 4318, 4319,
      4320, 4321, 4322, 4323, 4324, 4325, 4326, 4327, 4328, 4329,
      4330, 4331, 4332, 4333, 4334, 4335, 4336, 4337, 4338, 4339,
      4340, 4341, 4342, 4343, 4344, 4345, 4346, 4349, 4350, 4351,
      7681, 7683, 7685, 7687, 7689, 7691, 7693, 7695, 7697, 7699,
      7701, 7703, 7705, 7707, 7709, 7711, 7713, 7715, 7717, 7719,
      7721, 7723, 7725, 7727, 7729, 7731, 7733, 7735, 7737, 7739,
      7741, 7743, 7745, 7747, 7749, 7751, 7753, 7755, 7757, 7759,
      7761, 7763, 7765, 7767, 7769, 7771, 7773, 7775, 7777, 7779,
      7781, 7783, 7785, 7787, 7789, 7791, 7793, 7795, 7797, 7799,
      7801, 7803, 7805, 7807, 7809, 7811, 7813, 7815, 7817, 7819,
      7821, 7823, 7825, 7827, 7829, 223, 7841, 7843, 7845, 7847,
      7849, 7851, 7853, 7855, 7857, 7859, 7861, 7863, 7865, 7867,
      7869, 7871, 7873, 7875, 7877, 7879, 7881, 7883, 7885, 7887,
      7889, 7891, 7893, 7895, 7897, 7899, 7901, 7903, 7905, 7907,
      7909, 7911, 7913, 7915, 7917, 7919, 7921, 7923, 7925, 7927,
      7929, 7931, 7933, 7935, 7936, 7937, 7938, 7939, 7940, 7941,
      7942, 7943, 7952, 7953, 7954, 7955, 7956, 7957, 7968, 7969,
      7970, 7971, 7972, 7973, 7974, 7975, 7984, 7985, 7986, 7987,
      7988, 7989, 7990, 7991, 8000, 8001, 8002, 8003, 8004, 8005,
      8017, 8019, 8021, 8023, 8032, 8033, 8034, 8035, 8036, 8037,
      8038, 8039, 8064, 8065, 8066, 8067, 8068, 8069, 8070, 8071,
      8080, 8081, 8082, 8083, 8084, 8085, 8086, 8087, 8096, 8097,
      8098, 8099, 8100, 8101, 8102, 8103, 8112, 8113, 8048, 8049,
      8115, 8050, 8051, 8052, 8053, 8131, 8144, 8145, 8054, 8055,
      8160, 8161, 8058, 8059, 8165, 8056, 8057, 8060, 8061, 8179,
      969, 107, 229, 8526, 8560, 8561, 8562, 8563, 8564, 8565,
      8566, 8567, 8568, 8569, 8570, 8571, 8572, 8573, 8574, 8575,
      8580, 9424, 9425, 9426, 9427, 9428, 9429, 9430, 9431, 9432,
      9433, 9434, 9435, 9436, 9437, 9438, 9439, 9440, 9441, 9442,
      9443, 9444, 9445, 9446, 9447, 9448, 9449, 11312, 11313, 11314,
      11315, 11316, 11317, 11318, 11319, 11320, 11321, 11322, 11323, 11324,
      11325, 11326, 11327, 11328, 11329, 11330, 11331, 11332, 11333, 11334,
      11335, 11336, 11337, 11338, 11339, 11340, 11341, 11342, 11343, 11344,
      11345, 11346, 11347, 11348, 11349, 11350, 11351, 11352, 11353, 11354,
      11355, 11356, 11357, 11358, 11359, 11361, 619, 7549, 637, 11368,
      11370, 11372, 593, 625, 592, 594, 11379, 11382, 575, 576,
      11393, 11395, 11397, 11399, 11401, 11403, 11405, 11407, 11409, 11411,
      11413, 11415, 11417, 11419, 11421, 11423, 11425, 11427, 11429, 11431,
      11433, 11435, 11437, 11439, 11441, 11443, 11445, 11447, 11449, 11451,
      11453, 11455, 11457, 11459, 11461, 11463, 11465, 11467, 11469, 11471,
      11473, 11475, 11477, 11479, 11481, 11483, 11485, 11487, 11489, 11491,
      11500, 11502, 11507, 42561, 42563, 42565, 42567, 42569, 42571, 42573,
      42575, 42577, 42579, 42581, 42583, 42585, 42587, 42589, 42591, 42593,
      42595, 42597, 42599, 42601, 42603, 42605, 42625, 42627, 42629, 42631,
      42633, 42635, 42637, 42639, 42641, 42643, 42645, 42647, 42649, 42651,
      42787, 42789, 42791, 42793, 42795, 42797, 42799, 42803, 42805, 42807,
      42809, 42811, 42813, 42815, 42817, 42819, 42821, 42823, 42825, 42827,
      42829, 42831, 42833, 42835, 42837, 42839, 42841, 42843, 42845, 42847,
      42849, 42851, 42853, 42855, 42857, 42859, 42861, 42863, 42874, 42876,
      7545, 42879, 42881, 42883, 42885, 42887, 42892, 613, 42897, 42899,
      42903, 42905, 42907, 42909, 42911, 42913, 42915, 42917, 42919, 42921,
      614, 604, 609, 620, 618, 670, 647, 669, 43859, 42933,
      42935, 42937, 42939, 42941, 42943, 42945, 42947, 42900, 642, 7566,
      42952, 42954, 42961, 42967, 42969, 42998, 65345, 65346, 65347, 65348,
      65349, 65350, 65351, 65352, 65353, 65354, 65355, 65356, 65357, 65358,
      65359, 65360, 65361, 65362, 65363, 65364, 65365, 65366, 65367, 65368,
      65369, 65370, 66600, 66601, 66602, 66603, 66604, 66605, 66606, 66607,
      66608, 66609, 66610, 66611, 66612, 66613, 66614, 66615, 66616, 66617,
      66618, 66619, 66620, 66621, 66622, 66623, 66624, 66625, 66626, 66627,
      66628, 66629, 66630, 66631, 66632, 66633, 66634, 66635, 66636, 66637,
      66638, 66639, 66776, 66777, 66778, 66779, 66780, 66781, 66782, 66783,
      66784, 66785, 66786, 66787, 66788, 66789, 66790, 66791, 66792, 66793,
      66794, 66795, 66796, 66797, 66798, 66799, 66800, 66801, 66802, 66803,
      66804, 66805, 66806, 66807, 66808, 66809, 66810, 66811, 66967, 66968,
      66969, 66970, 66971, 66972, 66973, 66974, 66975, 66976, 66977, 66979,
      66980, 66981, 66982, 66983, 66984, 66985, 66986, 66987, 66988, 66989,
      66990, 66991, 66992, 66993, 66995, 66996, 66997, 66998, 66999, 67000,
      67001, 67003, 67004, 68800, 68801, 68802, 68803, 68804, 68805, 68806,
      68807, 68808, 68809, 68810, 68811, 68812, 68813, 68814, 68815, 68816,
      68817, 68818, 68819, 68820, 68821, 68822, 68823, 68824, 68825, 68826,
      68827, 68828, 68829, 68830, 68831, 68832, 68833, 68834, 68835, 68836,
      68837, 68838, 68839, 68840, 68841, 68842, 68843, 68844, 68845, 68846,
      68847, 68848, 68849, 68850, 71872, 71873, 71874, 71875, 71876, 71877,
      71878, 71879, 71880, 71881, 71882, 71883, 71884, 71885, 71886, 71887,
      71888, 71889, 71890, 71891, 71892, 71893, 71894, 71895, 71896, 71897,
      71898, 71899, 71900, 71901, 71902, 71903, 93792, 93793, 93794, 93795,
      93796, 93797, 93798, 93799, 93800, 93801, 93802, 93803, 93804, 93805,
      93806, 93807, 93808, 93809, 93810, 93811, 93812, 93813, 93814, 93815,
      93816, 93817, 93818, 93819, 93820, 93821, 93822, 93823, 125218, 125219,
      125220, 125221, 125222, 125223, 125224, 125225, 125226, 125227, 125228, 125229,
      125230, 125231, 125232, 125233, 125234, 125235, 125236, 125237, 125238, 125239,
      125240, 125241, 125242, 125243, 125244, 125245, 125246, 125247, 125248, 125249,
      125250, 125251>>

\* c.lower() where it is more than one character
LOWER_FULL ==
    << <<304, <<105, 775>>>> >>

\* c.capitalize() is chr(TITLE_TO[k]) for c = chr(TITLE_FROM[k])
TITLE_FROM ==
    <<97, 98, 99, 100, 101, 102, 103, 104, 105, 106,
      107, 108, 109, 110, 111, 112, 113, 114, 115, 116,
      117, 118, 119, 120, 121, 122, 181, 224, 225, 226,
      227, 228, 229, 230, 231, 232, 233, 234, 235, 236,
      237, 238, 239, 240, 241, 242, 243, 244, 245, 246,
      248, 249, 250, 251, 252, 253, 254, 255, 257, 259,
      261, 263, 265, 267, 269, 271, 273, 275, 277, 279,
      281, 283, 285, 287, 289, 291, 293, 295, 297, 299,
      301, 303, 305, 307, 309, 311, 314, 316, 318, 320,
      322, 324, 326, 328, 331, 333, 335, 337, 339, 341,
      343, 345, 347, 349, 351, 353, 355, 357, 359, 361,
      363, 365, 367, 369, 371, 373, 375, 378, 380, 382,
      383, 384, 387, 389, 392, 396, 402, 405, 409, 410,
      414, 417, 419, 421, 424, 429, 432, 436, 438, 441,
      445, 447, 452, 454, 455, 457, 458, 460, 462, 464,
      466, 468, 470, 472, 474, 476, 477, 479, 481, 483,
      485, 487, 489, 491, 493, 495, 497, 499, 501, 505,
      507, 509, 511, 513, 515, 517, 519, 521, 523, 525,
      527, 529, 531, 533, 535, 537, 539, 541, 543, 547,
      549, 551, 553, 555, 557, 559, 561, 563, 572, 575,
      576, 578, 583, 585, 587, 589, 591, 592, 593, 594,
      595, 596, 598, 599, 601, 603, 604, 608, 609, 611,
      613, 614, 616, 617, 618, 619, 620, 623, 625, 626,
      629, 637, 640, 642, 643, 647, 648, 649, 650, 651,
      652, 658, 669, 670, 837, 881, 883, 887, 891, 892,
      893, 940, 941, 942, 943, 945, 946, 947, 948, 949,
      950, 951, 952, 953, 954, 955, 956, 957, 958, 959,
      960, 961, 962, 963, 964, 965, 966, 967, 968, 969,
      970, 971, 972, 973, 974, 976, 977, 981, 982, 983,
      985, 987, 989, 991, 993, 995, 997, 999, 1001, 1003,
      1005, 1007, 1008, 1009, 1010, 1011, 1013, 1016, 1019, 1072,
      1073, 1074, 1075, 1076, 1077, 1078, 1079, 1080, 1081, 1082,
      1083, 1084, 1085, 1086, 1087, 1088, 1089, 1090, 1091, 1092,
      1093, 1094, 1095, 1096, 1097, 1098, 1099, 1100, 1101, 1102,
      1103, 1104, 1105, 1106, 1107, 1108, 1109, 1110, 1111, 1112,
      1113, 1114, 1115, 1116, 1117, 1118, 1119, 1121, 1123, 1125,
      1127, 1129, 1131, 1133, 1135, 1137, 1139, 1141, 1143, 1145,
      1147, 1149, 1151, 1153, 1163, 1165, 1167, 1169, 1171, 1173,
      1175, 1177, 1179, 1181, 1183, 1185, 1187, 1189, 1191, 1193,
      1195, 1197, 1199, 1201, 1203, 1205, 1207, 1209, 1211, 1213,
      1215, 1218, 1220, 1222, 1224, 1226, 1228, 1230, 1231, 1233,
      1235, 1237, 1239, 1241, 1243, 1245, 1247, 1249, 1251, 1253,
      1255, 1257, 1259, 1261, 1263, 1265, 1267, 1269, 1271, 1273,
      1275, 1277, 1279, 1281, 1283, 1285, 1287, 1289, 1291, 1293,
      1295, 1297, 1299, 1301, 1303, 1305, 1307, 1309, 1311, 1313,
      1315, 1317, 1319, 1321, 1323, 1325, 1327, 1377, 1378, 1379,
      1380, 1381, 1382, 1383, 1384, 1385, 1386, 1387, 1388, 1389,
      1390, 1391, 1392, 1393, 1394, 1395, 1396, 1397, 1398, 1399,
      1400, 1401, 1402, 1403, 1404, 1405, 1406, 1407, 1408, 1409,
      1410, 1411, 1412, 1413, 1414, 5112, 5113, 5114, 5115, 5116,
      5117, 7296, 7297, 7298, 7299, 7300, 7301, 7302, 7303, 7304,
      7545, 7549, 7566, 7681, 7683, 7685, 7687, 7689, 7691, 7693,
      7695, 7697, 7699, 7701, 7703, 7705, 7707, 7709, 7711, 7713,
      7715, 7717, 7719, 7721, 7723, 7725, 7727, 7729, 7731, 7733,
      7735, 7737, 7739, 7741, 7743, 7745, 7747, 7749, 7751, 7753,
      7755, 7757, 7759, 7761, 7763, 7765, 7767, 7769, 7771, 7773,
      7775, 7777, 7779, 7781, 7783, 7785, 7787, 7789, 7791, 7793,
      7795, 7797, 7799, 7801, 7803, 7805, 7807, 7809, 7811, 7813,
      7815, 7817, 7819, 7821, 7823, 7825, 7827, 7829, 7835, 7841,
      7843, 7845, 7847, 7849, 7851, 7853, 7855, 7857, 7859, 7861,
      7863, 7865, 7867, 7869, 7871, 7873, 7875, 7877, 7879, 7881,
      7883, 7885, 7887, 7889, 7891, 7893, 7895, 7897, 7899, 7901,
      7903, 7905, 7907, 7909, 7911, 7913, 7915, 7917, 7919, 7921,
      7923, 7925, 7927, 7929, 7931, 7933, 7935, 7936, 7937, 7938,
      7939, 7940, 7941, 7942, 7943, 7952, 7953, 7954, 7955, 7956,
      7957, 7968, 7969, 7970, 7971, 7972, 7973, 7974, 7975, 7984,
      7985, 7986, 7987, 7988, 7989, 7990, 7991, 8000, 8001, 8002,
      8003, 8004, 8005, 8017, 8019, 8021, 8023, 8032, 8033, 8034,
      8035, 8036, 8037, 8038, 8039, 8048, 8049, 8050, 8051, 8052,
      8053, 8054, 8055, 8056, 8057, 8058, 8059, 8060, 8061, 8064,
      8065, 8066, 8067, 8068, 8069, 8070, 8071, 8080, 8081, 8082,
      8083, 8084, 8085, 8086, 8087, 8096, 8097, 8098, 8099, 8100,
      8101, 8102, 8103, 8112, 8113, 8115, 8126, 8131, 8144, 8145,
      8160, 8161, 8165, 8179, 8526, 8560, 8561, 8562, 8563, 8564,
      8565, 8566, 8567, 8568, 8569, 8570, 8571, 8572, 8573, 8574,
      8575, 8580, 9424, 9425, 9426, 9427, 9428, 9429, 9430, 9431,
      9432, 9433, 9434, 9435, 9436, 9437, 9438, 9439, 9440, 9441,
      9442, 9443, 9444, 9445, 9446, 9447, 9448, 9449, 11312, 11313,
      11314, 11315, 11316, 11317, 11318, 11319, 11320, 11321, 11322, 11323,
      11324, 11325, 11326, 11327, 11328, 11329, 11330, 11331, 11332, 11333,
      11334, 11335, 11336, 11337, 11338, 11339, 11340, 11341, 11342, 11343,
      11344, 11345, 11346, 11347, 11348, 11349, 11350, 11351, 11352, 11353,
      11354, 11355, 11356, 11357, 11358, 11359, 11361, 11365, 11366, 11368,
      11370, 11372, 11379, 11382, 11393, 11395, 11397, 11399, 11401, 11403,
      11405, 11407, 11409, 11411, 11413, 11415, 11417, 11419, 11421, 11423,
      11425, 11427, 11429, 11431, 11433, 11435, 11437, 11439, 11441, 11443,
      11445, 11447, 11449, 11451, 11453, 11455, 11457, 11459, 11461, 11463,
      11465, 11467, 11469, 11471, 11473, 11475, 11477, 11479, 11481, 11483,
      11485, 11487, 11489, 11491, 11500, 11502, 11507, 11520, 11521, 11522,
      11523, 11524, 11525, 11526, 11527, 11528, 11529, 11530, 11531, 11532,
      11533, 11534, 11535, 11536, 11537, 11538, 11539, 11540, 11541, 11542,
      11543, 11544, 11545, 11546, 11547, 11548, 11549, 11550, 11551, 11552,
      11553, 11554, 11555, 11556, 11557, 11559, 11565, 42561, 42563, 42565,
      42567, 42569, 42571, 42573, 42575, 42577, 42579, 42581, 42583, 42585,
      42587, 42589, 42591, 42593, 42595, 42597, 42599, 42601, 42603, 42605,
      42625, 42627, 42629, 42631, 42633, 42635, 42637, 42639, 42641, 42643,
      42645, 42647, 42649, 42651, 42787, 42789, 42791, 42793, 42795, 42797,
      42799, 42803, 42805, 42807, 42809, 42811, 42813, 42815, 42817, 42819,
      42821, 42823, 42825, 42827, 42829, 42831, 42833, 42835, 42837, 42839,
      42841, 42843, 42845, 42847, 42849, 42851, 42853, 42855, 42857, 42859,
      42861, 42863, 42874, 42876, 42879, 42881, 42883, 42885, 42887, 42892,
      42897, 42899, 42900, 42903, 42905, 42907, 42909, 42911, 42913, 42915,
      42917, 42919, 42921, 42933, 42935, 42937, 42939, 42941, 42943, 42945,
      42947, 42952, 42954, 42961, 42967, 42969, 42998, 43859, 43888, 43889,
      43890, 43891, 43892, 43893, 43894, 43895, 43896, 43897, 43898, 43899,
      43900, 43901, 43902, 43903, 43904, 43905, 43906, 43907, 43908, 43909,
      43910, 43911, 43912, 43913, 43914, 43915, 43916, 43917, 43918, 43919,
      43920, 43921, 43922, 43923, 43924, 43925, 43926, 43927, 43928, 43929,
      43930, 43931, 43932, 43933, 43934, 43935, 43936, 43937, 43938, 43939,
      43940, 43941, 43942, 43943, 43944, 43945, 43946, 43947, 43948, 43949,
      43950, 43951, 43952, 43953, 43954, 43955, 43956, 43957, 43958, 43959,
      43960, 43961, 43962, 43963, 43964, 43965, 43966, 43967, 65345, 65346,
      65347, 65348, 65349, 65350, 65351, 65352, 65353, 65354, 65355, 65356,
      65357, 65358, 65359, 65360, 65361, 65362, 65363, 65364, 65365, 65366,
      65367, 65368, 65369, 65370, 66600, 66601, 66602, 66603, 66604, 66605,
      66606, 66607, 66608, 66609, 66610, 66611, 66612, 66613, 66614, 66615,
      66616, 66617, 66618, 66619, 66620, 66621, 66622, 66623, 66624, 66625,
      66626, 66627, 66628, 66629, 66630, 66631, 66632, 66633, 66634, 66635,
      66636, 66637, 66638, 66639, 66776, 66777, 66778, 66779, 66780, 66781,
      66782, 66783, 66784, 66785, 66786, 66787, 66788, 66789, 66790, 66791,
      66792, 66793, 66794, 66795, 66796, 66797, 66798, 66799, 66800, 66801,
      66802, 66803, 66804, 66805, 66806, 66807, 66808, 66809, 66810, 66811,
      66967, 66968, 66969, 66970, 66971, 66972, 66973, 66974, 66975, 66976,
      66977, 66979, 66980, 66981, 66982, 66983, 66984, 66985, 66986, 66987,
      66988, 66989, 66990, 66991, 66992, 66993, 66995, 66996, 66997, 66998,
      66999, 67000, 67001, 67003, 67004, 68800, 68801, 68802, 68803, 68804,
      68805, 68806, 68807, 68808, 68809, 68810, 68811, 68812, 68813, 68814,
      68815, 68816, 68817, 68818, 68819, 68820, 68821, 68822, 68823, 68824,
      68825, 68826, 68827, 68828, 68829, 68830, 68831, 68832, 68833, 68834,
      68835, 68836, 68837, 68838, 68839, 68840, 68841, 68842, 68843, 68844,
      68845, 68846, 68847, 68848, 68849, 68850, 71872, 71873, 71874, 71875,
      71876, 71877, 71878, 71879, 71880, 71881, 71882, 71883, 71884, 71885,
      71886, 71887, 71888, 71889, 71890, 71891, 71892, 71893, 71894, 71895,
      71896, 71897, 71898, 71899, 71900, 71901, 71902, 71903, 93792, 93793,
      93794, 93795, 93796, 93797, 93798, 93799, 93800, 93801, 93802, 93803,
      93804, 93805, 93806, 93807, 93808, 93809, 93810, 93811, 93812, 93813,
      93814, 93815, 93816, 93817, 93818, 93819, 93820, 93821, 93822, 93823,
      125218, 125219, 125220, 125221, 125222, 125223, 125224, 125225, 125226, 125227,
      125228, 125229, 125230, 125231, 125232, 125233, 125234, 125235, 125236, 125237,
      125238, 125239, 125240, 125241, 125242, 125243, 125244, 125245, 125246, 125247,
      125248, 125249, 125250, 125251>>

TITLE_TO ==
    <<65, 66, 67, 68, 69, 70, 71, 72, 73, 74,
      75, 76, 77, 78, 79, 80, 81, 82, 83, 84,
      85, 86, 87, 88, 89, 90, 924, 192, 193, 194,
      195, 196, 197, 198, 199, 200, 201, 202, 203, 204,
      205, 206, 207, 208, 209, 210, 211, 212, 213, 214,
      216, 217, 218, 219, 220, 221, 222, 376, 256, 258,
      260, 262, 264, 266, 268, 270, 272, 274, 276, 278,
      280, 282, 284, 286, 288, 290, 292, 294, 296, 298,
      300, 302, 73, 306, 308, 310, 313, 315, 317, 319,
      321, 323, 325, 327, 330, 332, 334, 336, 338, 340,
      342, 344, 346, 348, 350, 352, 354, 356, 358, 360,
      362, 364, 366, 368, 370, 372, 374, 377, 379, 381,
      83, 579, 386, 388, 391, 395, 401, 502, 408, 573,
      544, 416, 418, 420, 423, 428, 431, 435, 437, 440,
      444, 503, 453, 453, 456, 456, 459, 459, 461, 463,
      465, 467, 469, 471, 473, 475, 398, 478, 480, 482,
      484, 486, 488, 490, 492, 494, 498, 498, 500, 504,
      506, 508, 510, 512, 514, 516, 518, 520, 522, 524,
      526, 528, 530, 532, 534, 536, 538, 540, 542, 546,
      548, 550, 552, 554, 556, 558, 560, 562, 571, 11390,
      11391, 577, 582, 584, 586, 588, 590, 11375, 11373, 11376,
      385, 390, 393, 394, 399, 400, 42923, 403, 42924, 404,
      42893, 42922, 407, 406, 42926, 11362, 42925, 412, 11374, 413,
      415, 11364, 422, 42949, 425, 42929, 430, 580, 433, 434,
      581, 439, 42930, 42928, 921, 880, 882, 886, 1021, 1022,
      1023, 902, 904, 905, 906, 913, 914, 915, 916, 917,
      918, 919, 920, 921, 922, 923, 924, 925, 926, 927,
      928, 929, 931, 931, 932, 933, 934, 935, 936, 937,
      938, 939, 908, 910, 911, 914, 920, 934, 928, 975,
      984, 986, 988, 990, 992, 994, 996, 998, 1000, 1002,
      1004, 1006, 922, 929, 1017, 895, 917, 1015, 1018, 1040,
      1041, 1042, 1043, 1044, 1045, 1046, 1047, 1048, 1049, 1050,
      1051, 1052, 1053, 1054, 1055, 1056, 1057, 1058, 1059, 1060,
      1061, 1062, 1063, 1064, 1065, 1066, 1067, 1068, 1069, 1070,
      1071, 1024, 1025, 1026, 1027, 1028, 1029, 1030, 1031, 1032,
      1033, 1034, 1035, 1036, 1037, 1038, 1039, 1120, 1122, 1124,
      1126, 1128, 1130, 1132, 1134, 1136, 1138, 1140, 1142, 1144,
      1146, 1148, 1150, 1152, 1162, 1164, 1166, 1168, 1170, 1172,
      1174, 1176, 1178, 1180, 1182, 1184, 1186, 1188, 1190, 1192,
      1194, 1196, 1198, 1200, 1202, 1204, 1206, 1208, 1210, 1212,
      1214, 1217, 1219, 1221, 1223, 1225, 1227, 1229, 1216, 1232,
      1234, 1236, 1238, 1240, 1242, 1244, 1246, 1248, 1250, 1252,
      1254, 1256, 1258, 1260, 1262, 1264, 1266, 1268, 1270, 1272,
      1274, 1276, 1278, 1280, 1282, 1284, 1286, 1288, 1290, 1292,
      1294, 1296, 1298, 1300, 1302, 1304, 1306, 1308, 1310, 1312,
      1314, 1316, 1318, 1320, 1322, 1324, 1326, 1329, 1330, 1331,
      1332, 1333, 1334, 1335, 1336, 1337, 1338, 1339, 1340, 1341,
      1342, 1343, 1344, 1345, 1346, 1347, 1348, 1349, 1350, 1351,
      1352, 1353, 1354, 1355, 1356, 1357, 1358, 1359, 1360, 1361,
      1362, 1363, 1364, 1365, 1366, 5104, 5105, 5106, 5107, 5108,
      5109, 1042, 1044, 1054, 1057, 1058, 1058, 1066, 1122, 42570,
      42877, 11363, 42950, 7680, 7682, 7684, 7686, 7688, 7690, 7692,
      7694, 7696, 7698, 7700, 7702, 7704, 7706, 7708, 7710, 7712,
      7714, 7716, 7718, 7720, 7722, 7724, 7726, 7728, 7730, 7732,
      7734, 7736, 7738, 7740, 7742, 7744, 7746, 7748, 7750, 7752,
      7754, 7756, 7758, 7760, 7762, 7764, 7766, 7768, 7770, 7772,
      7774, 7776, 7778, 7780, 7782, 7784, 7786, 7788, 7790, 7792,
      7794, 7796, 7798, 7800, 7802, 7804, 7806, 7808, 7810, 7812,
      7814, 7816, 7818, 7820, 7822, 7824, 7826, 7828, 7776, 7840,
      7842, 7844, 7846, 7848, 7850, 7852, 7854, 7856, 7858, 7860,
      7862, 7864, 7866, 7868, 7870, 7872, 7874, 7876, 7878, 7880,
      7882, 7884, 7886, 7888, 7890, 7892, 7894, 7896, 7898, 7900,
      7902, 7904, 7906, 7908, 7910, 7912, 7914, 7916, 7918, 7920,
      7922, 7924, 7926, 7928, 7930, 7932, 7934, 7944, 7945, 7946,
      7947, 7948, 7949, 7950, 7951, 7960, 7961, 7962, 7963, 7964,
      7965, 7976, 7977, 7978, 7979, 7980, 7981, 7982, 7983, 7992,
      7993, 7994, 7995, 7996, 7997, 7998, 7999, 8008, 8009, 8010,
      8011, 8012, 8013, 8025, 8027, 8029, 8031, 8040, 8041, 8042,
      8043, 8044, 8045, 8046, 8047, 8122, 8123, 8136, 8137, 8138,
      8139, 8154, 8155, 8184, 8185, 8170, 8171, 8186, 8187, 8072,
      8073, 8074, 8075, 8076, 8077, 8078, 8079, 8088, 8089, 8090,
      8091, 8092, 8093, 8094, 8095, 8104, 8105, 8106, 8107, 8108,
      8109, 8110, 8111, 8120, 8121, 8124, 921, 8140, 8152, 8153,
      8168, 8169, 8172, 8188, 8498, 8544, 8545, 8546, 8547, 8548,
      8549, 8550, 8551, 8552, 8553, 8554, 8555, 8556, 8557, 8558,
      8559, 8579, 9398, 9399, 9400, 9401, 9402, 9403, 9404, 9405,
      9406, 9407, 9408, 9409, 9410, 9411, 9412, 9413, 9414, 9415,
      9416, 9417, 9418, 9419, 9420, 9421, 9422, 9423, 11264, 11265,
      11266, 11267, 11268, 11269, 11270, 11271, 11272, 11273, 11274, 11275,
      11276, 11277, 11278, 11279, 11280, 11281, 11282, 11283, 11284, 11285,
      11286, 11287, 11288, 11289, 11290, 11291, 11292, 11293, 11294, 11295,
      11296, 11297, 11298, 11299, 11300, 11301, 11302, 11303, 11304, 11305,
      11306, 11307, 11308, 11309, 11310, 11311, 11360, 570, 574, 11367,
      11369, 11371, 11378, 11381, 11392, 11394, 11396, 11398, 11400, 11402,
      11404, 11406, 11408, 11410, 11412, 11414, 11416, 11418, 11420, 11422,
      11424, 11426, 11428, 11430, 11432, 11434, 11436, 11438, 11440, 11442,
      11444, 11446, 11448, 11450, 11452, 11454, 11456, 11458, 11460, 11462,
      11464, 11466, 11468, 11470, 11472, 11474, 11476, 11478, 11480, 11482,
      11484, 11486, 11488, 11490, 11499, 11501, 11506, 4256, 4257, 4258,
      4259, 4260, 4261, 4262, 4263, 4264, 4265, 4266, 4267, 4268,
      4269, 4270, 4271, 4272, 4273, 4274, 4275, 4276, 4277, 4278,
      4279, 4280, 4281, 4282, 4283, 4284, 4285, 4286, 4287, 4288,
      4289, 4290, 4291, 4292, 4293, 4295, 4301, 42560, 42562, 42564,
      42566, 42568, 42570, 42572, 42574, 42576, 42578, 42580, 42582, 42584,
      42586, 42588, 42590, 42592, 42594, 42596, 42598, 42600, 42602, 42604,
      42624, 42626, 42628, 42630, 42632, 42634, 42636, 42638, 42640, 42642,
      42644, 42646, 42648, 42650, 42786, 42788, 42790, 42792, 42794, 42796,
      42798, 42802, 42804, 42806, 42808, 42810, 42812, 42814, 42816, 42818,
      42820, 42822, 42824, 42826, 42828, 42830, 42832, 42834, 42836, 42838,
      42840, 42842, 42844, 42846, 42848, 42850, 42852, 42854, 42856, 42858,
      42860, 42862, 42873, 42875, 42878, 42880, 42882, 42884, 42886, 42891,
      42896, 42898, 42948, 42902, 42904, 42906, 42908, 42910, 42912, 42914,
      42916, 42918, 42920, 42932, 42934, 42936, 42938, 42940, 42942, 42944,
      42946, 42951, 42953, 42960, 42966, 42968, 42997, 42931, 5024, 5025,
      5026, 5027, 5028, 5029, 5030, 5031, 5032, 5033, 5034, 5035,
      5036, 5037, 5038, 5039, 5040, 5041, 5042, 5043, 5044, 5045,
      5046, 5047, 5048, 5049, 5050, 5051, 5052, 5053, 5054, 5055,
      5056, 5057, 5058, 5059, 5060, 5061, 5062, 5063, 5064, 5065,
      5066, 5067, 5068, 5069, 5070, 5071, 5072, 5073, 5074, 5075,
      5076, 5077, 5078, 5079, 5080, 5081, 5082, 5083, 5084, 5085,
      5086, 5087, 5088, 5089, 5090, 5091, 5092, 5093, 5094, 5095,
      5096, 5097, 5098, 5099, 5100, 5101, 5102, 5103, 65313, 65314,
      65315, 65316, 65317, 65318, 65319, 65320, 65321, 65322, 65323, 65324,
      65325, 65326, 65327, 65328, 65329, 65330, 65331, 65332, 65333, 65334,
      65335, 65336, 65337, 65338, 66560, 66561, 66562, 66563, 66564, 66565,
      66566, 66567, 66568, 66569, 66570, 66571, 66572, 66573, 66574, 66575,
      66576, 66577, 66578, 66579, 66580, 66581, 66582, 66583, 66584, 66585,
      66586, 66587, 66588, 66589, 66590, 66591, 66592, 66593, 66594, 66595,
      66596, 66597, 66598, 66599, 66736, 66737, 66738, 66739, 66740, 66741,
      66742, 66743, 66744, 66745, 66746, 66747, 66748, 66749, 66750, 66751,
      66752, 66753, 66754, 66755, 66756, 66757, 66758, 66759, 66760, 66761,
      66762, 66763, 66764, 66765, 66766, 66767, 66768, 66769, 66770, 66771,
      66928, 66929, 66930, 66931, 66932, 66933, 66934, 66935, 66936, 66937,
      66938, 66940, 66941, 66942, 66943, 66944, 66945, 66946, 66947, 66948,
      66949, 66950, 66951, 66952, 66953, 66954, 66956, 66957, 66958, 66959,
      66960, 66961, 66962, 66964, 66965, 68736, 68737, 68738, 68739, 68740,
      68741, 68742, 68743, 68744, 68745, 68746, 68747, 68748, 68749, 68750,
      68751, 68752, 68753, 68754, 68755, 68756, 68757, 68758, 68759, 68760,
      68761, 68762, 68763, 68764, 68765, 68766, 68767, 68768, 68769, 68770,
      68771, 68772, 68773, 68774, 68775, 68776, 68777, 68778, 68779, 68780,
      68781, 68782, 68783, 68784, 68785, 68786, 71840, 71841, 71842, 71843,
      71844, 71845, 71846, 71847, 71848, 71849, 71850, 71851, 71852, 71853,
      71854, 71855, 71856, 71857, 71858, 71859, 71860, 71861, 71862, 71863,
      71864, 71865, 71866, 71867, 71868, 71869, 71870, 71871, 93760, 93761,
      93762, 93763, 93764, 93765, 93766, 93767, 93768, 93769, 93770, 93771,
      93772, 93773, 93774, 93775, 93776, 93777, 93778, 93779, 93780, 93781,
      93782, 93783, 93784, 93785, 93786, 93787, 93788, 93789, 93790, 93791,
      125184, 125185, 125186, 125187, 125188, 125189, 125190, 125191, 125192, 125193,
      125194, 125195, 125196, 125197, 125198, 125199, 125200, 125201, 125202, 125203,
      125204, 125205, 125206, 125207, 125208, 125209, 125210, 125211, 125212, 125213,
      125214, 125215, 125216, 125217>>

\* c.capitalize() where it is more than one character
TITLE_FULL ==
    << <<223, <<83, 115>>>>, <<329, <<700, 78>>>>, <<496, <<74, 780>>>>,
       <<912, <<921, 776, 769>>>>, <<944, <<933, 776, 769>>>>, <<1415, <<1333, 1410>>>>,
       <<7830, <<72, 817>>>>, <<7831, <<84, 776>>>>, <<7832, <<87, 778>>>>,
       <<7833, <<89, 778>>>>, <<7834, <<65, 702>>>>, <<8016, <<933, 787>>>>,
       <<8018, <<933, 787, 768>>>>, <<8020, <<933, 787, 769>>>>, <<8022, <<933, 787, 834>>>>,
       <<8114, <<8122, 837>>>>, <<8116, <<902, 837>>>>, <<8118, <<913, 834>>>>,
       <<8119, <<913, 834, 837>>>>, <<8130, <<8138, 837>>>>, <<8132, <<905, 837>>>>,
       <<8134, <<919, 834>>>>, <<8135, <<919, 834, 837>>>>, <<8146, <<921, 776, 768>>>>,
       <<8147, <<921, 776, 769>>>>, <<8150, <<921, 834>>>>, <<8151, <<921, 776, 834>>>>,
       <<8162, <<933, 776, 768>>>>, <<8163, <<933, 776, 769>>>>, <<8164, <<929, 787>>>>,
       <<8166, <<933, 834>>>>, <<8167, <<933, 776, 834>>>>, <<8178, <<8186, 837>>>>,
       <<8180, <<911, 837>>>>, <<8182, <<937, 834>>>>, <<8183, <<937, 834, 837>>>>,
       <<64256, <<70, 102>>>>, <<64257, <<70, 105>>>>, <<64258, <<70, 108>>>>,
       <<64259, <<70, 102, 105>>>>, <<64260, <<70, 102, 108>>>>, <<64261, <<83, 116>>>>,
       <<64262, <<83, 116>>>>, <<64275, <<1348, 1398>>>>, <<64276, <<1348, 1381>>>>,
       <<64277, <<1348, 1387>>>>, <<64278, <<1358, 1398>>>>, <<64279, <<1348, 1389>>>> >>

\* the cased and the case-ignorable characters, in ranges <<first, last>>:
\* the context str.lower() looks at around a capital sigma, and str.title()
\* before each character
CASED_RANGES ==
    << <<65, 90>>, <<97, 122>>, <<170, 170>>, <<181, 181>>,
       <<186, 186>>, <<192, 214>>, <<216, 246>>, <<248, 442>>,
       <<444, 447>>, <<452, 659>>, <<661, 696>>, <<704, 705>>,
       <<736, 740>>, <<837, 837>>, <<880, 883>>, <<886, 887>>,
       <<890, 893>>, <<895, 895>>, <<902, 902>>, <<904, 906>>,
       <<908, 908>>, <<910, 929>>, <<931, 1013>>, <<1015, 1153>>,
       <<1162, 1327>>, <<1329, 1366>>, <<1376, 1416>>, <<4256, 4293>>,
       <<4295, 4295>>, <<4301, 4301>>, <<4304, 4346>>, <<4349, 4351>>,
       <<5024, 5109>>, <<5112, 5117>>, <<7296, 7304>>, <<7312, 7354>>,
       <<7357, 7359>>, <<7424, 7615>>, <<7680, 7957>>, <<7960, 7965>>,
       <<7968, 8005>>, <<8008, 8013>>, <<8016, 8023>>, <<8025, 8025>>,
       <<8027, 8027>>, <<8029, 8029>>, <<8031, 8061>>, <<8064, 8116>>,
       <<8118, 8124>>, <<8126, 8126>>, <<8130, 8132>>, <<8134, 8140>>,
       <<8144, 8147>>, <<8150, 8155>>, <<8160, 8172>>, <<8178, 8180>>,
       <<8182, 8188>>, <<8305, 8305>>, <<8319, 8319>>, <<8336, 8348>>,
       <<8450, 8450>>, <<8455, 8455>>, <<8458, 8467>>, <<8469, 8469>>,
       <<8473, 8477>>, <<8484, 8484>>, <<8486, 8486>>, <<8488, 8488>>,
       <<8490, 8493>>, <<8495, 8500>>, <<8505, 8505>>, <<8508, 8511>>,
       <<8517, 8521>>, <<8526, 8526>>, <<8544, 8575>>, <<8579, 8580>>,
       <<9398, 9449>>, <<11264, 11492>>, <<11499, 11502>>, <<11506, 11507>>,
       <<11520, 11557>>, <<11559, 11559>>, <<11565, 11565>>, <<42560, 42605>>,
       <<42624, 42653>>, <<42786, 42887>>, <<42891, 42894>>, <<42896, 42954>>,
       <<42960, 42961>>, <<42963, 42963>>, <<42965, 42969>>, <<42997, 42998>>,
       <<43000, 43002>>, <<43824, 43866>>, <<43868, 43880>>, <<43888, 43967>>,
       <<64256, 64262>>, <<64275, 64279>>, <<65313, 65338>>, <<65345, 65370>>,
       <<66560, 66639>>, <<66736, 66771>>, <<66776, 66811>>, <<66928, 66938>>,
       <<66940, 66954>>, <<66956, 66962>>, <<66964, 66965>>, <<66967, 66977>>,
       <<66979, 66993>>, <<66995, 67001>>, <<67003, 67004>>, <<67456, 67456>>,
       <<67459, 67461>>, <<67463, 67504>>, <<67506, 67514>>, <<68736, 68786>>,
       <<68800, 68850>>, <<71840, 71903>>, <<93760, 93823>>, <<119808, 119892>>,
       <<119894, 119964>>, <<119966, 119967>>, <<119970, 119970>>, <<119973, 119974>>,
       <<119977, 119980>>, <<119982, 119993>>, <<119995, 119995>>, <<119997, 120003>>,
       <<120005, 120069>>, <<120071, 120074>>, <<120077, 120084>>, <<120086, 120092>>,
       <<120094, 120121>>, <<120123, 120126>>, <<120128, 120132>>, <<120134, 120134>>,
       <<120138, 120144>>, <<120146, 120485>>, <<120488, 120512>>, <<120514, 120538>>,
       <<120540, 120570>>, <<120572, 120596>>, <<120598, 120628>>, <<120630, 120654>>,
       <<120656, 120686>>, <<120688, 120712>>, <<120714, 120744>>, <<120746, 120770>>,
       <<120772, 120779>>, <<122624, 122633>>, <<122635, 122654>>, <<125184, 125251>>,
       <<127280, 127305>>, <<127312, 127337>>, <<127344, 127369>> >>

CASE_IGNORABLE_RANGES ==
    << <<39, 39>>, <<46, 46>>, <<58, 58>>, <<94, 94>>,
       <<96, 96>>, <<168, 168>>, <<173, 173>>, <<175, 175>>,
       <<180, 180>>, <<183, 184>>, <<688, 879>>, <<884, 885>>,
       <<890, 890>>, <<900, 901>>, <<903, 903>>, <<1155, 1161>>,
       <<1369, 1369>>, <<1375, 1375>>, <<1425, 1469>>, <<1471, 1471>>,
       <<1473, 1474>>, <<1476, 1477>>, <<1479, 1479>>, <<1524, 1524>>,
       <<1536, 1541>>, <<1552, 1562>>, <<1564, 1564>>, <<1600, 1600>>,
       <<1611, 1631>>, <<1648, 1648>>, <<1750, 1757>>, <<1759, 1768>>,
       <<1770, 1773>>, <<1807, 1807>>, <<1809, 1809>>, <<1840, 1866>>,
       <<1958, 1968>>, <<2027, 2037>>, <<2042, 2042>>, <<2045, 2045>>,
       <<2070, 2093>>, <<2137, 2139>>, <<2184, 2184>>, <<2192, 2193>>,
       <<2200, 2207>>, <<2249, 2306>>, <<2362, 2362>>, <<2364, 2364>>,
       <<2369, 2376>>, <<2381, 2381>>, <<2385, 2391>>, <<2402, 2403>>,
       <<2417, 2417>>, <<2433, 2433>>, <<2492, 2492>>, <<2497, 2500>>,
       <<2509, 2509>>, <<2530, 2531>>, <<2558, 2558>>, <<2561, 2562>>,
       <<2620, 2620>>, <<2625, 2626>>, <<2631, 2632>>, <<2635, 2637>>,
       <<2641, 2641>>, <<2672, 2673>>, <<2677, 2677>>, <<2689, 2690>>,
       <<2748, 2748>>, <<2753, 2757>>, <<2759, 2760>>, <<2765, 2765>>,
       <<2786, 2787>>, <<2810, 2815>>, <<2817, 2817>>, <<2876, 2876>>,
       <<2879, 2879>>, <<2881, 2884>>, <<2893, 2893>>, <<2901, 2902>>,
       <<2914, 2915>>, <<2946, 2946>>, <<3008, 3008>>, <<3021, 3021>>,
       <<3072, 3072>>, <<3076, 3076>>, <<3132, 3132>>, <<3134, 3136>>,
       <<3142, 3144>>, <<3146, 3149>>, <<3157, 3158>>, <<3170, 3171>>,
       <<3201, 3201>>, <<3260, 3260>>, <<3263, 3263>>, <<3270, 3270>>,
       <<3276, 3277>>, <<3298, 3299>>, <<3328, 3329>>, <<3387, 3388>>,
       <<3393, 3396>>, <<3405, 3405>>, <<3426, 3427>>, <<3457, 3457>>,
       <<3530, 3530>>, <<3538, 3540>>, <<3542, 3542>>, <<3633, 3633>>,
       <<3636, 3642>>, <<3654, 3662>>, <<3761, 3761>>, <<3764, 3772>>,
       <<3782, 3782>>, <<3784, 3789>>, <<3864, 3865>>, <<3893, 3893>>,
       <<3895, 3895>>, <<3897, 3897>>, <<3953, 3966>>, <<3968, 3972>>,
       <<3974, 3975>>, <<3981, 3991>>, <<3993, 4028>>, <<4038, 4038>>,
       <<4141, 4144>>, <<4146, 4151>>, <<4153, 4154>>, <<4157, 4158>>,
       <<4184, 4185>>, <<4190, 4192>>, <<4209, 4212>>, <<4226, 4226>>,
       <<4229, 4230>>, <<4237, 4237>>, <<4253, 4253>>, <<4348, 4348>>,
       <<4957, 4959>>, <<5906, 5908>>, <<5938, 5939>>, <<5970, 5971>>,
       <<6002, 6003>>, <<6068, 6069>>, <<6071, 6077>>, <<6086, 6086>>,
       <<6089, 6099>>, <<6103, 6103>>, <<6109, 6109>>, <<6155, 6159>>,
       <<6211, 6211>>, <<6277, 6278>>, <<6313, 6313>>, <<6432, 6434>>,
       <<6439, 6440>>, <<6450, 6450>>, <<6457, 6459>>, <<6679, 6680>>,
       <<6683, 6683>>, <<6742, 6742>>, <<6744, 6750>>, <<6752, 6752>>,
       <<6754, 6754>>, <<6757, 6764>>, <<6771, 6780>>, <<6783, 6783>>,
       <<6823, 6823>>, <<6832, 6862>>, <<6912, 6915>>, <<6964, 6964>>,
       <<6966, 6970>>, <<6972, 6972>>, <<6978, 6978>>, <<7019, 7027>>,
       <<7040, 7041>>, <<7074, 7077>>, <<7080, 7081>>, <<7083, 7085>>,
       <<7142, 7142>>, <<7144, 7145>>, <<7149, 7149>>, <<7151, 7153>>,
       <<7212, 7219>>, <<7222, 7223>>, <<7288, 7293>>, <<7376, 7378>>,
       <<7380, 7392>>, <<7394, 7400>>, <<7405, 7405>>, <<7412, 7412>>,
       <<7416, 7417>>, <<7468, 7530>>, <<7544, 7544>>, <<7579, 7679>>,
       <<8125, 8125>>, <<8127, 8129>>, <<8141, 8143>>, <<8157, 8159>>,
       <<8173, 8175>>, <<8189, 8190>>, <<8203, 8207>>, <<8216, 8217>>,
       <<8228, 8228>>, <<8231, 8231>>, <<8234, 8238>>, <<8288, 8292>>,
       <<8294, 8303>>, <<8305, 8305>>, <<8319, 8319>>, <<8336, 8348>>,
       <<8400, 8432>>, <<11388, 11389>>, <<11503, 11505>>, <<11631, 11631>>,
       <<11647, 11647>>, <<11744, 11775>>, <<11823, 11823>>, <<12293, 12293>>,
       <<12330, 12333>>, <<12337, 12341>>, <<12347, 12347>>, <<12441, 12446>>,
       <<12540, 12542>>, <<40981, 40981>>, <<42232, 42237>>, <<42508, 42508>>,
       <<42607, 42610>>, <<42612, 42621>>, <<42623, 42623>>, <<42652, 42655>>,
       <<42736, 42737>>, <<42752, 42785>>, <<42864, 42864>>, <<42888, 42890>>,
       <<42994, 42996>>, <<43000, 43001>>, <<43010, 43010>>, <<43014, 43014>>,
       <<43019, 43019>>, <<43045, 43046>>, <<43052, 43052>>, <<43204, 43205>>,
       <<43232, 43249>>, <<43263, 43263>>, <<43302, 43309>>, <<43335, 43345>>,
       <<43392, 43394>>, <<43443, 43443>>, <<43446, 43449>>, <<43452, 43453>>,
       <<43471, 43471>>, <<43493, 43494>>, <<43561, 43566>>, <<43569, 43570>>,
       <<43573, 43574>>, <<43587, 43587>>, <<43596, 43596>>, <<43632, 43632>>,
       <<43644, 43644>>, <<43696, 43696>>, <<43698, 43700>>, <<43703, 43704>>,
       <<43710, 43711>>, <<43713, 43713>>, <<43741, 43741>>, <<43756, 43757>>,
       <<43763, 43764>>, <<43766, 43766>>, <<43867, 43871>>, <<43881, 43883>>,
       <<44005, 44005>>, <<44008, 44008>>, <<44013, 44013>>, <<64286, 64286>>,
       <<64434, 64450>>, <<65024, 65039>>, <<65043, 65043>>, <<65056, 65071>>,
       <<65106, 65106>>, <<65109, 65109>>, <<65279, 65279>>, <<65287, 65287>>,
       <<65294, 65294>>, <<65306, 65306>>, <<65342, 65342>>, <<65344, 65344>>,
       <<65392, 65392>>, <<65438, 65439>>, <<65507, 65507>>, <<65529, 65531>>,
       <<66045, 66045>>, <<66272, 66272>>, <<66422, 66426>>, <<67456, 67461>>,
       <<67463, 67504>>, <<67506, 67514>>, <<68097, 68099>>, <<68101, 68102>>,
       <<68108, 68111>>, <<68152, 68154>>, <<68159, 68159>>, <<68325, 68326>>,
       <<68900, 68903>>, <<69291, 69292>>, <<69446, 69456>>, <<69506, 69509>>,
       <<69633, 69633>>, <<69688, 69702>>, <<69744, 69744>>, <<69747, 69748>>,
       <<69759, 69761>>, <<69811, 69814>>, <<69817, 69818>>, <<69821, 69821>>,
       <<69826, 69826>>, <<69837, 69837>>, <<69888, 69890>>, <<69927, 69931>>,
       <<69933, 69940>>, <<70003, 70003>>, <<70016, 70017>>, <<70070, 70078>>,
       <<70089, 70092>>, <<70095, 70095>>, <<70191, 70193>>, <<70196, 70196>>,
       <<70198, 70199>>, <<70206, 70206>>, <<70367, 70367>>, <<70371, 70378>>,
       <<70400, 70401>>, <<70459, 70460>>, <<70464, 70464>>, <<70502, 70508>>,
       <<70512, 70516>>, <<70712, 70719>>, <<70722, 70724>>, <<70726, 70726>>,
       <<70750, 70750>>, <<70835, 70840>>, <<70842, 70842>>, <<70847, 70848>>,
       <<70850, 70851>>, <<71090, 71093>>, <<71100, 71101>>, <<71103, 71104>>,
       <<71132, 71133>>, <<71219, 71226>>, <<71229, 71229>>, <<71231, 71232>>,
       <<71339, 71339>>, <<71341, 71341>>, <<71344, 71349>>, <<71351, 71351>>,
       <<71453, 71455>>, <<71458, 71461>>, <<71463, 71467>>, <<71727, 71735>>,
       <<71737, 71738>>, <<71995, 71996>>, <<71998, 71998>>, <<72003, 72003>>,
       <<72148, 72151>>, <<72154, 72155>>, <<72160, 72160>>, <<72193, 72202>>,
       <<72243, 72248>>, <<72251, 72254>>, <<72263, 72263>>, <<72273, 72278>>,
       <<72281, 72283>>, <<72330, 72342>>, <<72344, 72345>>, <<72752, 72758>>,
       <<72760, 72765>>, <<72767, 72767>>, <<72850, 72871>>, <<72874, 72880>>,
       <<72882, 72883>>, <<72885, 72886>>, <<73009, 73014>>, <<73018, 73018>>,
       <<73020, 73021>>, <<73023, 73029>>, <<73031, 73031>>, <<73104, 73105>>,
       <<73109, 73109>>, <<73111, 73111>>, <<73459, 73460>>, <<78896, 78904>>,
       <<92912, 92916>>, <<92976, 92982>>, <<92992, 92995>>, <<94031, 94031>>,
       <<94095, 94111>>, <<94176, 94177>>, <<94179, 94180>>, <<110576, 110579>>,
       <<110581, 110587>>, <<110589, 110590>>, <<113821, 113822>>, <<113824, 113827>>,
       <<118528, 118573>>, <<118576, 118598>>, <<119143, 119145>>, <<119155, 119170>>,
       <<119173, 119179>>, <<119210, 119213>>, <<119362, 119364>>, <<121344, 121398>>,
       <<121403, 121452>>, <<121461, 121461>>, <<121476, 121476>>, <<121499, 121503>>,
       <<121505, 121519>>, <<122880, 122886>>, <<122888, 122904>>, <<122907, 122913>>,
       <<122915, 122916>>, <<122918, 122922>>, <<123184, 123197>>, <<123566, 123566>>,
       <<123628, 123631>>, <<125136, 125142>>, <<125252, 125259>>, <<127995, 127999>>,
       <<917505, 917505>>, <<917536, 917631>>, <<917760, 917999>> >>

\* the characters \w matches, in ranges <<first, last>>
WORD_RANGES ==
    << <<48, 57>>, <<65, 90>>, <<95, 95>>, <<97, 122>>,
       <<170, 170>>, <<178, 179>>, <<181, 181>>, <<185, 186>>,
       <<188, 190>>, <<192, 214>>, <<216, 246>>, <<248, 705>>,
       <<710, 721>>, <<736, 740>>, <<748, 748>>, <<750, 750>>,
       <<880, 884>>, <<886, 887>>, <<890, 893>>, <<895, 895>>,
       <<902, 902>>, <<904, 906>>, <<908, 908>>, <<910, 929>>,
       <<931, 1013>>, <<1015, 1153>>, <<1162, 1327>>, <<1329, 1366>>,
       <<1369, 1369>>, <<1376, 1416>>, <<1488, 1514>>, <<1519, 1522>>,
       <<1568, 1610>>, <<1632, 1641>>, <<1646, 1647>>, <<1649, 1747>>,
       <<1749, 1749>>, <<1765, 1766>>, <<1774, 1788>>, <<1791, 1791>>,
       <<1808, 1808>>, <<1810, 1839>>, <<1869, 1957>>, <<1969, 1969>>,
       <<1984, 2026>>, <<2036, 2037>>, <<2042, 2042>>, <<2048, 2069>>,
       <<2074, 2074>>, <<2084, 2084>>, <<2088, 2088>>, <<2112, 2136>>,
       <<2144, 2154>>, <<2160, 2183>>, <<2185, 2190>>, <<2208, 2249>>,
       <<2308, 2361>>, <<2365, 2365>>, <<2384, 2384>>, <<2392, 2401>>,
       <<2406, 2415>>, <<2417, 2432>>, <<2437, 2444>>, <<2447, 2448>>,
       <<2451, 2472>>, <<2474, 2480>>, <<2482, 2482>>, <<2486, 2489>>,
       <<2493, 2493>>, <<2510, 2510>>, <<2524, 2525>>, <<2527, 2529>>,
       <<2534, 2545>>, <<2548, 2553>>, <<2556, 2556>>, <<2565, 2570>>,
       <<2575, 2576>>, <<2579, 2600>>, <<2602, 2608>>, <<2610, 2611>>,
       <<2613, 2614>>, <<2616, 2617>>, <<2649, 2652>>, <<2654, 2654>>,
       <<2662, 2671>>, <<2674, 2676>>, <<2693, 2701>>, <<2703, 2705>>,
       <<2707, 2728>>, <<2730, 2736>>, <<2738, 2739>>, <<2741, 2745>>,
       <<2749, 2749>>, <<2768, 2768>>, <<2784, 2785>>, <<2790, 2799>>,
       <<2809, 2809>>, <<2821, 2828>>, <<2831, 2832>>, <<2835, 2856>>,
       <<2858, 2864>>, <<2866, 2867>>, <<2869, 2873>>, <<2877, 2877>>,
       <<2908, 2909>>, <<2911, 2913>>, <<2918, 2927>>, <<2929, 2935>>,
       <<2947, 2947>>, <<2949, 2954>>, <<2958, 2960>>, <<2962, 2965>>,
       <<2969, 2970>>, <<2972, 2972>>, <<2974, 2975>>, <<2979, 2980>>,
       <<2984, 2986>>, <<2990, 3001>>, <<3024, 3024>>, <<3046, 3058>>,
       <<3077, 3084>>, <<3086, 3088>>, <<3090, 3112>>, <<3114, 3129>>,
       <<3133, 3133>>, <<3160, 3162>>, <<3165, 3165>>, <<3168, 3169>>,
       <<3174, 3183>>, <<3192, 3198>>, <<3200, 3200>>, <<3205, 3212>>,
       <<3214, 3216>>, <<3218, 3240>>, <<3242, 3251>>, <<3253, 3257>>,
       <<3261, 3261>>, <<3293, 3294>>, <<3296, 3297>>, <<3302, 3311>>,
       <<3313, 3314>>, <<3332, 3340>>, <<3342, 3344>>, <<3346, 3386>>,
       <<3389, 3389>>, <<3406, 3406>>, <<3412, 3414>>, <<3416, 3425>>,
       <<3430, 3448>>, <<3450, 3455>>, <<3461, 3478>>, <<3482, 3505>>,
       <<3507, 3515>>, <<3517, 3517>>, <<3520, 3526>>, <<3558, 3567>>,
       <<3585, 3632>>, <<3634, 3635>>, <<3648, 3654>>, <<3664, 3673>>,
       <<3713, 3714>>, <<3716, 3716>>, <<3718, 3722>>, <<3724, 3747>>,
       <<3749, 3749>>, <<3751, 3760>>, <<3762, 3763>>, <<3773, 3773>>,
       <<3776, 3780>>, <<3782, 3782>>, <<3792, 3801>>, <<3804, 3807>>,
       <<3840, 3840>>, <<3872, 3891>>, <<3904, 3911>>, <<3913, 3948>>,
       <<3976, 3980>>, <<4096, 4138>>, <<4159, 4169>>, <<4176, 4181>>,
       <<4186, 4189>>, <<4193, 4193>>, <<4197, 4198>>, <<4206, 4208>>,
       <<4213, 4225>>, <<4238, 4238>>, <<4240, 4249>>, <<4256, 4293>>,
       <<4295, 4295>>, <<4301, 4301>>, <<4304, 4346>>, <<4348, 4680>>,
       <<4682, 4685>>, <<4688, 4694>>, <<4696, 4696>>, <<4698, 4701>>,
       <<4704, 4744>>, <<4746, 4749>>, <<4752, 4784>>, <<4786, 4789>>,
       <<4792, 4798>>, <<4800, 4800>>, <<4802, 4805>>, <<4808, 4822>>,
       <<4824, 4880>>, <<4882, 4885>>, <<4888, 4954>>, <<4969, 4988>>,
       <<4992, 5007>>, <<5024, 5109>>, <<5112, 5117>>, <<5121, 5740>>,
       <<5743, 5759>>, <<5761, 5786>>, <<5792, 5866>>, <<5870, 5880>>,
       <<5888, 5905>>, <<5919, 5937>>, <<5952, 5969>>, <<5984, 5996>>,
       <<5998, 6000>>, <<6016, 6067>>, <<6103, 6103>>, <<6108, 6108>>,
       <<6112, 6121>>, <<6128, 6137>>, <<6160, 6169>>, <<6176, 6264>>,
       <<6272, 6276>>, <<6279, 6312>>, <<6314, 6314>>, <<6320, 6389>>,
       <<6400, 6430>>, <<6470, 6509>>, <<6512, 6516>>, <<6528, 6571>>,
       <<6576, 6601>>, <<6608, 6618>>, <<6656, 6678>>, <<6688, 6740>>,
       <<6784, 6793>>, <<6800, 6809>>, <<6823, 6823>>, <<6917, 6963>>,
       <<6981, 6988>>, <<6992, 7001>>, <<7043, 7072>>, <<7086, 7141>>,
       <<7168, 7203>>, <<7232, 7241>>, <<7245, 7293>>, <<7296, 7304>>,
       <<7312, 7354>>, <<7357, 7359>>, <<7401, 7404>>, <<7406, 7411>>,
       <<7413, 7414>>, <<7418, 7418>>, <<7424, 7615>>, <<7680, 7957>>,
       <<7960, 7965>>, <<7968, 8005>>, <<8008, 8013>>, <<8016, 8023>>,
       <<8025, 8025>>, <<8027, 8027>>, <<8029, 8029>>, <<8031, 8061>>,
       <<8064, 8116>>, <<8118, 8124>>, <<8126, 8126>>, <<8130, 8132>>,
       <<8134, 8140>>, <<8144, 8147>>, <<8150, 8155>>, <<8160, 8172>>,
       <<8178, 8180>>, <<8182, 8188>>, <<8304, 8305>>, <<8308, 8313>>,
       <<8319, 8329>>, <<8336, 8348>>, <<8450, 8450>>, <<8455, 8455>>,
       <<8458, 8467>>, <<8469, 8469>>, <<8473, 8477>>, <<8484, 8484>>,
       <<8486, 8486>>, <<8488, 8488>>, <<8490, 8493>>, <<8495, 8505>>,
       <<8508, 8511>>, <<8517, 8521>>, <<8526, 8526>>, <<8528, 8585>>,
       <<9312, 9371>>, <<9450, 9471>>, <<10102, 10131>>, <<11264, 11492>>,
       <<11499, 11502>>, <<11506, 11507>>, <<11517, 11517>>, <<11520, 11557>>,
       <<11559, 11559>>, <<11565, 11565>>, <<11568, 11623>>, <<11631, 11631>>,
       <<11648, 11670>>, <<11680, 11686>>, <<11688, 11694>>, <<11696, 11702>>,
       <<11704, 11710>>, <<11712, 11718>>, <<11720, 11726>>, <<11728, 11734>>,
       <<11736, 11742>>, <<11823, 11823>>, <<12293, 12295>>, <<12321, 12329>>,
       <<12337, 12341>>, <<12344, 12348>>, <<12353, 12438>>, <<12445, 12447>>,
       <<12449, 12538>>, <<12540, 12543>>, <<12549, 12591>>, <<12593, 12686>>,
       <<12690, 12693>>, <<12704, 12735>>, <<12784, 12799>>, <<12832, 12841>>,
       <<12872, 12879>>, <<12881, 12895>>, <<12928, 12937>>, <<12977, 12991>>,
       <<13312, 19903>>, <<19968, 42124>>, <<42192, 42237>>, <<42240, 42508>>,
       <<42512, 42539>>, <<42560, 42606>>, <<42623, 42653>>, <<42656, 42735>>,
       <<42775, 42783>>, <<42786, 42888>>, <<42891, 42954>>, <<42960, 42961>>,
       <<42963, 42963>>, <<42965, 42969>>, <<42994, 43009>>, <<43011, 43013>>,
       <<43015, 43018>>, <<43020, 43042>>, <<43056, 43061>>, <<43072, 43123>>,
       <<43138, 43187>>, <<43216, 43225>>, <<43250, 43255>>, <<43259, 43259>>,
       <<43261, 43262>>, <<43264, 43301>>, <<43312, 43334>>, <<43360, 43388>>,
       <<43396, 43442>>, <<43471, 43481>>, <<43488, 43492>>, <<43494, 43518>>,
       <<43520, 43560>>, <<43584, 43586>>, <<43588, 43595>>, <<43600, 43609>>,
       <<43616, 43638>>, <<43642, 43642>>, <<43646, 43695>>, <<43697, 43697>>,
       <<43701, 43702>>, <<43705, 43709>>, <<43712, 43712>>, <<43714, 43714>>,
       <<43739, 43741>>, <<43744, 43754>>, <<43762, 43764>>, <<43777, 43782>>,
       <<43785, 43790>>, <<43793, 43798>>, <<43808, 43814>>, <<43816, 43822>>,
       <<43824, 43866>>, <<43868, 43881>>, <<43888, 44002>>, <<44016, 44025>>,
       <<44032, 55203>>, <<55216, 55238>>, <<55243, 55291>>, <<63744, 64109>>,
       <<64112, 64217>>, <<64256, 64262>>, <<64275, 64279>>, <<64285, 64285>>,
       <<64287, 64296>>, <<64298, 64310>>, <<64312, 64316>>, <<64318, 64318>>,
       <<64320, 64321>>, <<64323, 64324>>, <<64326, 64433>>, <<64467, 64829>>,
       <<64848, 64911>>, <<64914, 64967>>, <<65008, 65019>>, <<65136, 65140>>,
       <<65142, 65276>>, <<65296, 65305>>, <<65313, 65338>>, <<65345, 65370>>,
       <<65382, 65470>>, <<65474, 65479>>, <<65482, 65487>>, <<65490, 65495>>,
       <<65498, 65500>>, <<65536, 65547>>, <<65549, 65574>>, <<65576, 65594>>,
       <<65596, 65597>>, <<65599, 65613>>, <<65616, 65629>>, <<65664, 65786>>,
       <<65799, 65843>>, <<65856, 65912>>, <<65930, 65931>>, <<66176, 66204>>,
       <<66208, 66256>>, <<66273, 66299>>, <<66304, 66339>>, <<66349, 66378>>,
       <<66384, 66421>>, <<66432, 66461>>, <<66464, 66499>>, <<66504, 66511>>,
       <<66513, 66517>>, <<66560, 66717>>, <<66720, 66729>>, <<66736, 66771>>,
       <<66776, 66811>>, <<66816, 66855>>, <<66864, 66915>>, <<66928, 66938>>,
       <<66940, 66954>>, <<66956, 66962>>, <<66964, 66965>>, <<66967, 66977>>,
       <<66979, 66993>>, <<66995, 67001>>, <<67003, 67004>>, <<67072, 67382>>,
       <<67392, 67413>>, <<67424, 67431>>, <<67456, 67461>>, <<67463, 67504>>,
       <<67506, 67514>>, <<67584, 67589>>, <<67592, 67592>>, <<67594, 67637>>,
       <<67639, 67640>>, <<67644, 67644>>, <<67647, 67669>>, <<67672, 67702>>,
       <<67705, 67742>>, <<67751, 67759>>, <<67808, 67826>>, <<67828, 67829>>,
       <<67835, 67867>>, <<67872, 67897>>, <<67968, 68023>>, <<68028, 68047>>,
       <<68050, 68096>>, <<68112, 68115>>, <<68117, 68119>>, <<68121, 68149>>,
       <<68160, 68168>>, <<68192, 68222>>, <<68224, 68255>>, <<68288, 68295>>,
       <<68297, 68324>>, <<68331, 68335>>, <<68352, 68405>>, <<68416, 68437>>,
       <<68440, 68466>>, <<68472, 68497>>, <<68521, 68527>>, <<68608, 68680>>,
       <<68736, 68786>>, <<68800, 68850>>, <<68858, 68899>>, <<68912, 68921>>,
       <<69216, 69246>>, <<69248, 69289>>, <<69296, 69297>>, <<69376, 69415>>,
       <<69424, 69445>>, <<69457, 69460>>, <<69488, 69505>>, <<69552, 69579>>,
       <<69600, 69622>>, <<69635, 69687>>, <<69714, 69743>>, <<69745, 69746>>,
       <<69749, 69749>>, <<69763, 69807>>, <<69840, 69864>>, <<69872, 69881>>,
       <<69891, 69926>>, <<69942, 69951>>, <<69956, 69956>>, <<69959, 69959>>,
       <<69968, 70002>>, <<70006, 70006>>, <<70019, 70066>>, <<70081, 70084>>,
       <<70096, 70106>>, <<70108, 70108>>, <<70113, 70132>>, <<70144, 70161>>,
       <<70163, 70187>>, <<70272, 70278>>, <<70280, 70280>>, <<70282, 70285>>,
       <<70287, 70301>>, <<70303, 70312>>, <<70320, 70366>>, <<70384, 70393>>,
       <<70405, 70412>>, <<70415, 70416>>, <<70419, 70440>>, <<70442, 70448>>,
       <<70450, 70451>>, <<70453, 70457>>, <<70461, 70461>>, <<70480, 70480>>,
       <<70493, 70497>>, <<70656, 70708>>, <<70727, 70730>>, <<70736, 70745>>,
       <<70751, 70753>>, <<70784, 70831>>, <<70852, 70853>>, <<70855, 70855>>,
       <<70864, 70873>>, <<71040, 71086>>, <<71128, 71131>>, <<71168, 71215>>,
       <<71236, 71236>>, <<71248, 71257>>, <<71296, 71338>>, <<71352, 71352>>,
       <<71360, 71369>>, <<71424, 71450>>, <<71472, 71483>>, <<71488, 71494>>,
       <<71680, 71723>>, <<71840, 71922>>, <<71935, 71942>>, <<71945, 71945>>,
       <<71948, 71955>>, <<71957, 71958>>, <<71960, 71983>>, <<71999, 71999>>,
       <<72001, 72001>>, <<72016, 72025>>, <<72096, 72103>>, <<72106, 72144>>,
       <<72161, 72161>>, <<72163, 72163>>, <<72192, 72192>>, <<72203, 72242>>,
       <<72250, 72250>>, <<72272, 72272>>, <<72284, 72329>>, <<72349, 72349>>,
       <<72368, 72440>>, <<72704, 72712>>, <<72714, 72750>>, <<72768, 72768>>,
       <<72784, 72812>>, <<72818, 72847>>, <<72960, 72966>>, <<72968, 72969>>,
       <<72971, 73008>>, <<73030, 73030>>, <<73040, 73049>>, <<73056, 73061>>,
       <<73063, 73064>>, <<73066, 73097>>, <<73112, 73112>>, <<73120, 73129>>,
       <<73440, 73458>>, <<73648, 73648>>, <<73664, 73684>>, <<73728, 74649>>,
       <<74752, 74862>>, <<74880, 75075>>, <<77712, 77808>>, <<77824, 78894>>,
       <<82944, 83526>>, <<92160, 92728>>, <<92736, 92766>>, <<92768, 92777>>,
       <<92784, 92862>>, <<92864, 92873>>, <<92880, 92909>>, <<92928, 92975>>,
       <<92992, 92995>>, <<93008, 93017>>, <<93019, 93025>>, <<93027, 93047>>,
       <<93053, 93071>>, <<93760, 93846>>, <<93952, 94026>>, <<94032, 94032>>,
       <<94099, 94111>>, <<94176, 94177>>, <<94179, 94179>>, <<94208, 100343>>,
       <<100352, 101589>>, <<101632, 101640>>, <<110576, 110579>>, <<110581, 110587>>,
       <<110589, 110590>>, <<110592, 110882>>, <<110928, 110930>>, <<110948, 110951>>,
       <<110960, 111355>>, <<113664, 113770>>, <<113776, 113788>>, <<113792, 113800>>,
       <<113808, 113817>>, <<119520, 119539>>, <<119648, 119672>>, <<119808, 119892>>,
       <<119894, 119964>>, <<119966, 119967>>, <<119970, 119970>>, <<119973, 119974>>,
       <<119977, 119980>>, <<119982, 119993>>, <<119995, 119995>>, <<119997, 120003>>,
       <<120005, 120069>>, <<120071, 120074>>, <<120077, 120084>>, <<120086, 120092>>,
       <<120094, 120121>>, <<120123, 120126>>, <<120128, 120132>>, <<120134, 120134>>,
       <<120138, 120144>>, <<120146, 120485>>, <<120488, 120512>>, <<120514, 120538>>,
       <<120540, 120570>>, <<120572, 120596>>, <<120598, 120628>>, <<120630, 120654>>,
       <<120656, 120686>>, <<120688, 120712>>, <<120714, 120744>>, <<120746, 120770>>,
       <<120772, 120779>>, <<120782, 120831>>, <<122624, 122654>>, <<123136, 123180>>,
       <<123191, 123197>>, <<123200, 123209>>, <<123214, 123214>>, <<123536, 123565>>,
       <<123584, 123627>>, <<123632, 123641>>, <<124896, 124902>>, <<124904, 124907>>,
       <<124909, 124910>>, <<124912, 124926>>, <<124928, 125124>>, <<125127, 125135>>,
       <<125184, 125251>>, <<125259, 125259>>, <<125264, 125273>>, <<126065, 126123>>,
       <<126125, 126127>>, <<126129, 126132>>, <<126209, 126253>>, <<126255, 126269>>,
       <<126464, 126467>>, <<126469, 126495>>, <<126497, 126498>>, <<126500, 126500>>,
       <<126503, 126503>>, <<126505, 126514>>, <<126516, 126519>>, <<126521, 126521>>,
       <<126523, 126523>>, <<126530, 126530>>, <<126535, 126535>>, <<126537, 126537>>,
       <<126539, 126539>>, <<126541, 126543>>, <<126545, 126546>>, <<126548, 126548>>,
       <<126551, 126551>>, <<126553, 126553>>, <<126555, 126555>>, <<126557, 126557>>,
       <<126559, 126559>>, <<126561, 126562>>, <<126564, 126564>>, <<126567, 126570>>,
       <<126572, 126578>>, <<126580, 126583>>, <<126585, 126588>>, <<126590, 126590>>,
       <<126592, 126601>>, <<126603, 126619>>, <<126625, 126627>>, <<126629, 126633>>,
       <<126635, 126651>>, <<127232, 127244>>, <<130032, 130041>>, <<131072, 173791>>,
       <<173824, 177976>>, <<177984, 178205>>, <<178208, 183969>>, <<183984, 191456>>,
       <<194560, 195101>>, <<196608, 201546>> >>

\* the characters \s matches, which are those str.strip() removes
SPACE_RANGES ==
    << <<9, 13>>, <<28, 32>>, <<133, 133>>, <<160, 160>>,
       <<5760, 5760>>, <<8192, 8202>>, <<8232, 8233>>, <<8239, 8239>>,
       <<8287, 8287>>, <<12288, 12288>> >>

\* <<p, cs>>: under re.IGNORECASE the character p of a pattern matches the
\* characters cs, for every character p of the trigger phrases
IGNORECASE_CHARS ==
    << <<32, <<32>>>>, <<97, <<65, 97>>>>,
       <<98, <<66, 98>>>>, <<99, <<67, 99>>>>,
       <<100, <<68, 100>>>>, <<101, <<69, 101>>>>,
       <<102, <<70, 102>>>>, <<103, <<71, 103>>>>,
       <<104, <<72, 104>>>>, <<105, <<73, 105, 304, 305>>>>,
       <<106, <<74, 106>>>>, <<108, <<76, 108>>>>,
       <<109, <<77, 109>>>>, <<110, <<78, 110>>>>,
       <<111, <<79, 111>>>>, <<112, <<80, 112>>>>,
       <<114, <<82, 114>>>>, <<115, <<83, 115, 383>>>>,
       <<116, <<84, 116>>>>, <<117, <<85, 117>>>>,
       <<118, <<86, 118>>>>, <<120, <<88, 120>>>>,
       <<121, <<89, 121>>>>, <<237, <<205, 237>>>>,
       <<243, <<211, 243>>>> >>

\* the code points of a table of ranges
CodesOf(ranges) == UNION {ranges[k][1]..ranges[k][2] : k \in 1..Len(ranges)}

\* the function that takes from[k] to to[k]
TableOf(from, to) ==
    [c \in {from[k] : k \in 1..Len(from)} |-> to[CHOOSE k \in 1..Len(from) : from[k] = c]]

\* the function that takes p[1] to p[2] for the pairs p of a table
PairsOf(table) ==
    [c \in {table[k][1] : k \in 1..Len(table)} |->
        table[CHOOSE k \in 1..Len(table) : table[k][1] = c][2]]

Cased == CodesOf(CASED_RANGES)
CaseIgnorable == CodesOf(CASE_IGNORABLE_RANGES)

\* \w of the re module on str
WordChars == CodesOf(WORD_RANGES)

\* \s of the re module, and what str.strip() removes
Whitespace == CodesOf(SPACE_RANGES)

\* [.!?]
Terminators == {46, 33, 63}

lower_table == TableOf(LOWER_FROM, LOWER_TO)
lower_full == PairsOf(LOWER_FULL)
UpperSet == DOMAIN lower_table

title_table == TableOf(TITLE_FROM, TITLE_TO)
title_full == PairsOf(TITLE_FULL)
LowerSet == DOMAIN title_table

\* the lower-case form of one character, out of context
lower_char(c) ==
    IF c \in DOMAIN lower_full THEN lower_full[c]
    ELSE IF c \in UpperSet THEN <<lower_table[c]>>
    ELSE <<c>>

\* the title-case form of one character
title_char(c) ==
    IF c \in DOMAIN title_full THEN title_full[c]
    ELSE IF c \in LowerSet THEN <<title_table[c]>>
    ELSE <<c>>

\* U+03A3 and U+03C2
CAPITAL_SIGMA == 931
FINAL_SIGMA == 962

RECURSIVE SkipIgnorableBack(_, _)
SkipIgnorableBack(s, j) ==
    IF j >= 1 /\ s[j] \in CaseIgnorable THEN SkipIgnorableBack(s, j - 1) ELSE j

RECURSIVE SkipIgnorableForward(_, _)
SkipIgnorableForward(s, j) ==
    IF j <= Len(s) /\ s[j] \in CaseIgnorable THEN SkipIgnorableForward(s, j + 1) ELSE j

\* a capital sigma at i ends a word: a cased character before it and none
\* after it, case-ignorable characters skipped on both sides
final_sigma(s, i) ==
    LET before == SkipIgnorableBack(s, i - 1)
        after == SkipIgnorableForward(s, i + 1)
    IN  /\ before >= 1
        /\ s[before] \in Cased
        /\ (after > Len(s) \/ s[after] \notin Cased)

\* the lower-case form of the character at i of s
lower_at(s, i) ==
    IF s[i] = CAPITAL_SIGMA /\ final_sigma(s, i) THEN <<FINAL_SIGMA>>
    ELSE lower_char(s[i])

RECURSIVE LowerFrom(_, _)
LowerFrom(s, i) ==
    IF i > Len(s) THEN <<>> ELSE lower_at(s, i) \o LowerFrom(s, i + 1)

\* str.lower()
str_lower(s) == LowerFrom(s, 1)

\* str.capitalize(): first character in title case, the rest lower-cased
str_capitalize(s) ==
    IF Len(s) = 0 THEN <<>> ELSE title_char(s[1]) \o LowerFrom(s, 2)

RECURSIVE TitleFrom(_, _)
TitleFrom(s, i) ==
    IF i > Len(s) THEN <<>>
    ELSE (IF i > 1 /\ s[i - 1] \in Cased THEN lower_at(s, i) ELSE title_char(s[i]))
         \o TitleFrom(s, i + 1)

\* str.title(): a character after a cased one lower-cased, any other in
\* title case
str_title(s) == TitleFrom(s, 1)

RECURSIVE LStripFrom(_, _)
LStripFrom(s, i) ==
    IF i <= Len(s) /\ s[i] \in Whitespace THEN LStripFrom(s, i + 1) ELSE i

RECURSIVE RStripFrom(_, _)
RStripFrom(s, j) ==
    IF j >= 1 /\ s[j] \in Whitespace THEN RStripFrom(s, j - 1) ELSE j

\* str.strip()
str_strip(s) == SubSeq(s, LStripFrom(s, 1), RStripFrom(s, Len(s)))

\* s[i:].startswith(w), 1-based
StartsAt(s, i, w) ==
    /\ i + Len(w) - 1 <= Len(s)
    /\ \A k \in 1..Len(w) : s[i + k - 1] = w[k]

\* `w in s` on strings
str_contains(s, w) == \E i \in 1..(Len(s) - Len(w) + 1) : StartsAt(s, i, w)

(***************************************************************************)
(* Keyword tables.                                                         *)
(***************************************************************************)
\* A dict whose items are iterated is the sequence of its items, <<key,
\* value>>, in the order of insertion.
dict_keys(d) == [k \in 1..Len(d) |-> d[k][1]]

dict_has(d, key) == \E k \in 1..Len(d) : d[k][1] = key

\* d[key]
dict_get(d, key) == d[CHOOSE k \in 1..Len(d) : d[k][1] = key][2]

\* d[key] = value: a new key goes last, a key already there keeps its place
dict_set(d, key, value) ==
    IF dict_has(d, key)
    THEN [k \in 1..Len(d) |-> IF d[k][1] = key THEN <<key, value>> ELSE d[k]]
    ELSE Append(d, <<key, value>>)

CATEGORY_KEYWORDS ==
    << <<Str("contrast"), Strs(<<"contraste", "legibilidad", "contrast", "readability">>)>>,
       <<Str("spacing"), Strs(<<"espaciado", "padding", "margin", "spacing", "espacio">>)>>,
       <<Str("alignment"), Strs(<<"alineación", "grid", "alignment", "alinear", "centrado">>)>>,
       <<Str("hierarchy"),
         Strs(<<"jerarquía", "tamaño", "hierarchy", "tamaños", "size", "peso">>)>> >>

SEVERITY_KEYWORDS ==
    [critical |-> Strs(<<"crítico", "malo", "terrible", "grave", "critical", "bad", "poor">>),
     warning  |-> Strs(<<"mejorable", "necesita", "debería", "warning", "improve", "needs">>)]

POSITIVE_WORDS ==
    Strs(<<"bien", "bueno", "correcto", "excelente", "perfecto", "good",
           "excellent", "correct", "great", "nice", "properly", "adecuado">>)

NEGATIVE_WORDS ==
    Strs(<<"mal", "malo", "problema", "issue", "error", "falta", "bad",
           "wrong", "problem", "missing", "poor", "incorrect">>)

(***************************************************************************)
(* count_keyword_matches: len(re.findall(r'\b' + kw + r'\b', text_lower))  *)
(* summed over the keywords.                                               *)
(***************************************************************************)
\* the character at position i matches \w
IsWordAt(s, i) ==
    /\ i >= 1
    /\ i <= Len(s)
    /\ s[i] \in WordChars

\* \b holds between the characters i-1 and i
WordBoundary(s, i) == IsWordAt(s, i - 1) # IsWordAt(s, i)

\* variant: the pattern without its two \b (substring counting)
RegexMatchAt_NoBoundary(s, i, w) == StartsAt(s, i, w)

RegexWordMatchAt(s, i, w) ==
    /\ StartsAt(s, i, w)
    /\ WordBoundary(s, i)
    /\ WordBoundary(s, i + Len(w))

\* findall scans left to right and resumes after each match; an empty
\* match moves on by one position
RECURSIVE FindAllWord(_, _, _)
FindAllWord(s, w, i) ==
    IF i > Len(s) - Len(w) + 1 THEN 0
    ELSE IF w = <<>> THEN (IF WordBoundary(s, i) THEN 1 ELSE 0) + FindAllWord(s, w, i + 1)
    ELSE IF RegexWordMatchAt(s, i, w) THEN 1 + FindAllWord(s, w, i + Len(w))
    ELSE FindAllWord(s, w, i + 1)

RECURSIVE SumMatches(_, _, _)
SumMatches(s, keywords, k) ==
    IF k > Len(keywords) THEN 0
    ELSE FindAllWord(s, str_lower(keywords[k]), 1) + SumMatches(s, keywords, k + 1)

\* variant: the text is not lower-cased before matching
count_keyword_matches_CaseSensitive(t, keywords) == SumMatches(t, keywords, 1)

count_keyword_matches(t, keywords) == SumMatches(str_lower(t), keywords, 1)

Max(a, b) == IF a >= b THEN a ELSE b
Min(a, b) == IF a <= b THEN a ELSE b

BASE_SCORE == 70
WORD_WEIGHT == 10
NEUTRAL_SCORE == 75

\* variant: the tally is returned without clamping
calculate_score_Unclamped(t) ==
    BASE_SCORE + count_keyword_matches(t, POSITIVE_WORDS) * WORD_WEIGHT
               - count_keyword_matches(t, NEGATIVE_WORDS) * WORD_WEIGHT

calculate_score(t) ==
    LET positive_count == count_keyword_matches(t, POSITIVE_WORDS)
        negative_count == count_keyword_matches(t, NEGATIVE_WORDS)
    IN  Max(0, Min(100, BASE_SCORE + positive_count * WORD_WEIGHT
                                   - negative_count * WORD_WEIGHT))

\* variant: round(...) in place of int(...)
SentimentScore_Rounded(p, n) == 50 + (100 * p + (p + n)) \div (2 * (p + n))

\* int(50 + (p / (p + n)) * 50): the float product is within one ulp of the
\* exact quotient and the sum rounds back onto it, so truncation gives the
\* integer quotient (compared for every p, n < 400).
SentimentScore(p, n) == 50 + (50 * p) \div (p + n)

category_score(t, keywords) ==
    LET mentions == count_keyword_matches(t, keywords)
        positive_nearby == count_keyword_matches(t, POSITIVE_WORDS)
        negative_nearby == count_keyword_matches(t, NEGATIVE_WORDS)
        base_score == IF positive_nearby + negative_nearby > 0
                      THEN SentimentScore(positive_nearby, negative_nearby)
                      ELSE BASE_SCORE
    IN  IF mentions = 0 THEN NEUTRAL_SCORE ELSE Max(0, Min(100, base_score))

\* the loop over CATEGORY_KEYWORDS.items(), from its k-th item on
RECURSIVE CategoryScoresFrom(_, _, _)
CategoryScoresFrom(t, k, cats) ==
    IF k > Len(CATEGORY_KEYWORDS) THEN cats
    ELSE CategoryScoresFrom(t, k + 1,
             dict_set(cats, CATEGORY_KEYWORDS[k][1],
                      category_score(t, CATEGORY_KEYWORDS[k][2])))

calculate_category_scores(t) == CategoryScoresFrom(t, 1, <<>>)

(***************************************************************************)
(* Sentences: re.split(r'[.!?]\s+', text).                                 *)
(***************************************************************************)
\* a match of [.!?]\s+ starts at i
IsSplitAt(s, i) ==
    /\ i + 1 <= Len(s)
    /\ s[i] \in Terminators
    /\ s[i + 1] \in Whitespace

RECURSIVE SplitFrom(_, _, _)
SplitFrom(s, start, i) ==
    IF i > Len(s) THEN <<SubSeq(s, start, Len(s))>>
    ELSE IF IsSplitAt(s, i)
         THEN LET next == LStripFrom(s, i + 1)
              IN  <<SubSeq(s, start, i - 1)>> \o SplitFrom(s, next, next)
         ELSE SplitFrom(s, start, i + 1)

re_split_sentences(s) == SplitFrom(s, 1, 1)

(***************************************************************************)
(* determine_severity and extract_issues.                                  *)
(***************************************************************************)
ContainsAny(s, words) == \E k \in 1..Len(words) : str_contains(s, words[k])

\* variant: the warning list is tried before the critical list
determine_severity_WarningFirst(sentence) ==
    LET sentence_lower == str_lower(sentence)
    IN  IF ContainsAny(sentence_lower, SEVERITY_KEYWORDS.warning) THEN Str("warning")
        ELSE IF ContainsAny(sentence_lower, SEVERITY_KEYWORDS.critical) THEN Str("critical")
        ELSE Str("info")

determine_severity(sentence) ==
    LET sentence_lower == str_lower(sentence)
    IN  IF ContainsAny(sentence_lower, SEVERITY_KEYWORDS.critical) THEN Str("critical")
        ELSE IF ContainsAny(sentence_lower, SEVERITY_KEYWORDS.warning) THEN Str("warning")
        ELSE Str("info")

\* variant: only the negative words flag a sentence
NEGATIVE_INDICATORS_NegativeOnly == NEGATIVE_WORDS

NEGATIVE_INDICATORS ==
    NEGATIVE_WORDS \o SEVERITY_KEYWORDS.critical \o SEVERITY_KEYWORDS.warning

RECURSIVE IssuesFrom(_, _)
IssuesFrom(sentences, k) ==
    IF k > Len(sentences) THEN <<>>
    ELSE LET sentence == str_strip(sentences[k])
             has_negative == ContainsAny(str_lower(sentence), NEGATIVE_INDICATORS)
         IN  IF sentence = <<>> \/ ~has_negative
             THEN IssuesFrom(sentences, k + 1)
             ELSE <<[severity |-> determine_severity(sentence), text |-> sentence]>>
                  \o IssuesFrom(sentences, k + 1)

extract_issues(t) == IssuesFrom(re_split_sentences(t), 1)

(***************************************************************************)
(* extract_suggestions.  Each pattern is an alternation of trigger phrases *)
(* followed by [:\s]+([^.!?]+[.!?]?), matched with re.IGNORECASE on the    *)
(* lower-cased text.                                                       *)
(***************************************************************************)
suggestion_patterns ==
    << Strs(<<"se recomienda", "recomendación", "sugiero", "sugerencia", "debería",
              "podría mejorar", "considera", "intenta">>),
       Strs(<<"recommend", "suggestion", "should", "could improve", "consider", "try">>),
       Strs(<<"mejorar", "improve", "fix", "arreglar", "cambiar", "change">>) >>

ignorecase_table ==
    [p \in DOMAIN PairsOf(IGNORECASE_CHARS) |->
        {PairsOf(IGNORECASE_CHARS)[p][k] : k \in 1..Len(PairsOf(IGNORECASE_CHARS)[p])}]

\* the character c matches the character p of a pattern under re.IGNORECASE
MatchesIgnoreCase(c, p) ==
    IF p \in DOMAIN ignorecase_table THEN c \in ignorecase_table[p] ELSE c = p

\* the trigger phrase w matches at i
TriggerAt(s, i, w) ==
    /\ i + Len(w) - 1 <= Len(s)
    /\ \A k \in 1..Len(w) : MatchesIgnoreCase(s[i + k - 1], w[k])

\* [:\s]
SeparatorChars == Whitespace \cup {58}

\* first index >= i whose character is not in [:\s]
RECURSIVE SkipSeparators(_, _)
SkipSeparators(s, i) ==
    IF i <= Len(s) /\ s[i] \in SeparatorChars THEN SkipSeparators(s, i + 1) ELSE i

\* first index >= i whose character is in [.!?], or Len(s) + 1
RECURSIVE SkipToTerminator(_, _)
SkipToTerminator(s, i) ==
    IF i <= Len(s) /\ s[i] \notin Terminators THEN SkipToTerminator(s, i + 1) ELSE i

\* Where the group starts when trigger w matches at i, 0 when it does not.
\* [:\s]+ takes the whole run of separators; when a terminator or the end of
\* the text follows, it gives its last character back to [^.!?]+.
GroupStart(s, i, w) ==
    LET j == i + Len(w)
        k == SkipSeparators(s, j)
    IN  IF ~TriggerAt(s, i, w) \/ k = j THEN 0
        ELSE IF k <= Len(s) /\ s[k] \notin Terminators THEN k
        ELSE IF k - j >= 2 THEN k - 1
        ELSE 0

\* last index of the group ([^.!?]+ then an optional terminator)
GroupEnd(s, g) ==
    LET e == SkipToTerminator(s, g) IN IF e <= Len(s) THEN e ELSE Len(s)

\* the first alternative, in the order written, that matches at i (0 if none)
FirstAlternative(s, i, alternatives) ==
    IF \E a \in 1..Len(alternatives) : GroupStart(s, i, alternatives[a]) > 0
    THEN CHOOSE a \in 1..Len(alternatives) :
            /\ GroupStart(s, i, alternatives[a]) > 0
            /\ \A b \in 1..(a - 1) : GroupStart(s, i, alternatives[b]) = 0
    ELSE 0

\* re.findall(pattern, s): the groups of the non-overlapping matches
RECURSIVE FindAllPattern(_, _, _)
FindAllPattern(s, alternatives, i) ==
    IF i > Len(s) THEN <<>>
    ELSE LET a == FirstAlternative(s, i, alternatives)
         IN  IF a = 0 THEN FindAllPattern(s, alternatives, i + 1)
             ELSE LET g == GroupStart(s, i, alternatives[a])
                      e == GroupEnd(s, g)
                  IN  <<SubSeq(s, g, e)>> \o FindAllPattern(s, alternatives, e + 1)

\* the matches of the three patterns, in the order the loops visit them
pattern_matches(t) ==
    LET text_lower == str_lower(t)
    IN  FindAllPattern(text_lower, suggestion_patterns[1], 1)
        \o FindAllPattern(text_lower, suggestion_patterns[2], 1)
        \o FindAllPattern(text_lower, suggestion_patterns[3], 1)

InSeq(x, seq) == \E k \in 1..Len(seq) : seq[k] = x

RECURSIVE CollectMatches(_, _, _)
CollectMatches(matches, k, acc) ==
    IF k > Len(matches) THEN acc
    ELSE LET clean_suggestion == str_capitalize(str_strip(matches[k]))
         IN  IF clean_suggestion # <<>> /\ ~InSeq(clean_suggestion, acc)
             THEN CollectMatches(matches, k + 1, Append(acc, clean_suggestion))
             ELSE CollectMatches(matches, k + 1, acc)

pattern_suggestions(t) == CollectMatches(pattern_matches(t), 1, <<>>)

improvement_keywords ==
    Strs(<<"mejorar", "cambiar", "ajustar", "corregir", "improve", "change", "adjust", "fix">>)

MAX_SUGGESTIONS == 5
MIN_SENTENCE_LEN == 10

RECURSIVE FallbackFrom(_, _, _)
FallbackFrom(sentences, k, acc) ==
    IF k > Len(sentences) \/ Len(acc) >= MAX_SUGGESTIONS THEN acc
    ELSE LET clean == str_capitalize(str_strip(sentences[k]))
         IN  IF /\ ContainsAny(str_lower(sentences[k]), improvement_keywords)
                /\ clean # <<>>
                /\ Len(clean) > MIN_SENTENCE_LEN
             THEN FallbackFrom(sentences, k + 1, Append(acc, clean))
             ELSE FallbackFrom(sentences, k + 1, acc)

fallback_suggestions(t) == FallbackFrom(re_split_sentences(t), 1, <<>>)

\* variant: the result is not cut to five
extract_suggestions_Uncapped(t) ==
    LET stage1 == pattern_suggestions(t)
    IN  IF stage1 # <<>> THEN stage1 ELSE fallback_suggestions(t)

extract_suggestions(t) ==
    LET stage1 == pattern_suggestions(t)
        found  == IF stage1 # <<>> THEN stage1 ELSE fallback_suggestions(t)
    IN  SubSeq(found, 1, Min(Len(found), MAX_SUGGESTIONS))

(***************************************************************************)
(* format_output.  FormatPieces is the sequence of strings the function    *)
(* appends to output, one per 'output += ...'; format_output joins them.   *)
(***************************************************************************)
\* the emoji of the report: U+1F31F, U+2705, U+26A0 U+FE0F, U+1F534,
\* U+1F4CA, U+1F4C8, U+1F3A8, U+1F4CF, U+1F4D0, U+1F3D7 U+FE0F,
\* U+2139 U+FE0F, U+1F4A1
GLOWING_STAR == <<127775>>
CHECK_MARK == <<9989>>
WARNING_SIGN == <<9888, 65039>>
RED_CIRCLE == <<128308>>
BAR_CHART == <<128202>>
CHART_INCREASING == <<128200>>
ARTIST_PALETTE == <<127912>>
STRAIGHT_RULER == <<128207>>
TRIANGULAR_RULER == <<128208>>
BUILDING_CONSTRUCTION == <<127959, 65039>>
INFORMATION == <<8505, 65039>>
LIGHT_BULB == <<128161>>

\* U+0060
BACKQUOTE == <<96>>

\* the digits of str(n)
DIGIT_CHARS == Str("0123456789")

RECURSIVE ToStr(_)
\* str(n) of an integer
ToStr(n) ==
    IF n < 0 THEN Str("-") \o ToStr(-n)
    ELSE IF n < 10 THEN <<DIGIT_CHARS[n + 1]>>
    ELSE ToStr(n \div 10) \o <<DIGIT_CHARS[(n % 10) + 1]>>

RECURSIVE Repeat(_, _)
\* c * n
Repeat(c, n) == IF n <= 0 THEN <<>> ELSE c \o Repeat(c, n - 1)

RECURSIVE Join(_)
Join(pieces) == IF pieces = <<>> THEN <<>> ELSE Head(pieces) \o Join(Tail(pieces))

score_emoji(s) ==
    IF s >= 90 THEN GLOWING_STAR
    ELSE IF s >= 75 THEN CHECK_MARK
    ELSE IF s >= 60 THEN WARNING_SIGN
    ELSE RED_CIRCLE

TITLE_LINE == Str("# ") \o BAR_CHART \o Str(" ANÁLISIS DE DISEÑO\n\n")

score_line(s) ==
    Str("## ") \o score_emoji(s) \o Str(" Score General: **") \o ToStr(s) \o Str("/100**\n\n")

CATEGORIES_HEADER == Str("### ") \o CHART_INCREASING \o Str(" Scores por Categoría\n\n")

category_names ==
    (Str("contrast") :> ARTIST_PALETTE \o Str(" Contraste"))
    @@ (Str("spacing") :> STRAIGHT_RULER \o Str(" Espaciado"))
    @@ (Str("alignment") :> TRIANGULAR_RULER \o Str(" Alineación"))
    @@ (Str("hierarchy") :> BUILDING_CONSTRUCTION \o Str(" Jerarquía"))

\* category_names.get(key, key.title())
category_name(key) ==
    IF key \in DOMAIN category_names THEN category_names[key] ELSE str_title(key)

category_line(key, value) ==
    Str("**") \o category_name(key) \o Str(":** ")
    \o Repeat(Str("█"), value \div 10) \o Repeat(Str("░"), 10 - value \div 10)
    \o Str(" ") \o BACKQUOTE \o ToStr(value) \o Str("/100") \o BACKQUOTE \o Str("\n")

ISSUES_HEADER == Str("### ") \o WARNING_SIGN \o Str(" Issues Encontrados\n\n")
CRITICAL_HEADER == Str("#### ") \o RED_CIRCLE \o Str(" CRÍTICO\n")
WARNING_HEADER == Str("#### ") \o WARNING_SIGN \o Str(" ADVERTENCIAS\n")
INFO_HEADER == Str("#### ") \o INFORMATION \o Str(" INFORMACIÓN\n")
SUGGESTIONS_HEADER == Str("### ") \o LIGHT_BULB \o Str(" Sugerencias de Mejora\n\n")
FOOTER_RULE == Str("---\n")
FOOTER_LINE == Str("*Análisis generado por Design Analysis API*")

issue_line(issue) == Str("- ") \o issue.text \o Str("\n")

\* variant: enumerate(suggestions) without its start of 1
suggestion_line_FromZero(i, suggestion) ==
    ToStr(i - 1) \o Str(". ") \o suggestion \o Str("\n")

suggestion_line(i, suggestion) == ToStr(i) \o Str(". ") \o suggestion \o Str("\n")

WithSeverity(iss, sev) == SelectSeq(iss, LAMBDA i : i.severity = sev)

\* a subsection: nothing when empty, else header, one line per issue, "\n"
severity_block(header, group) ==
    IF group = <<>> THEN <<>>
    ELSE <<header>> \o [k \in 1..Len(group) |-> issue_line(group[k])] \o <<Str("\n")>>

\* variant: the section is written whether or not there are issues
issues_section_Unguarded(iss) ==
    <<ISSUES_HEADER>>
    \o severity_block(CRITICAL_HEADER, WithSeverity(iss, Str("critical")))
    \o severity_block(WARNING_HEADER, WithSeverity(iss, Str("warning")))
    \o severity_block(INFO_HEADER, WithSeverity(iss, Str("info")))

issues_section(iss) ==
    IF iss = <<>> THEN <<>>
    ELSE <<ISSUES_HEADER>>
         \o severity_block(CRITICAL_HEADER, WithSeverity(iss, Str("critical")))
         \o severity_block(WARNING_HEADER, WithSeverity(iss, Str("warning")))
         \o severity_block(INFO_HEADER, WithSeverity(iss, Str("info")))

suggestions_section(sug) ==
    IF sug = <<>> THEN <<>>
    ELSE <<SUGGESTIONS_HEADER>>
         \o [k \in 1..Len(sug) |-> suggestion_line(k, sug[k])]
         \o <<Str("\n")>>

\* the keys of categories.items(), in the order the loop takes them
category_keys(cats) == dict_keys(cats)

\* the category loop runs over the items of the dict in insertion order
FormatPieces(s, cats, iss, sug) ==
    <<TITLE_LINE, score_line(s), CATEGORIES_HEADER>>
    \o [k \in 1..Len(cats) |-> category_line(cats[k][1], cats[k][2])]
    \o <<Str("\n")>>
    \o issues_section(iss)
    \o suggestions_section(sug)
    \o <<FOOTER_RULE, FOOTER_LINE>>

format_output(s, cats, iss, sug) == Join(FormatPieces(s, cats, iss, sug))

(***************************************************************************)
(* The requests.  A request text is a concatenation of at most MaxChunks   *)
(* chunks; each specification draws its chunks from a vocabulary that      *)
(* exercises one part of the pipeline.                                     *)
(***************************************************************************)
MaxChunks == 3

RECURSIVE TextsUpTo(_, _)
TextsUpTo(chunks, n) ==
    IF n = 0 THEN {<<>>}
    ELSE LET shorter == TextsUpTo(chunks, n - 1)
         IN  shorter \cup {t \o c : t \in shorter, c \in chunks}

\* U+30080, an ideograph, is a word character; U+0390 and U+1FD3 have the
\* same title-case form, of three characters
ScoreChunks ==
    {Str("good "), Str("Bad"), Str("ge "), Str("_ bad mal poor "), Str("à"), <<196736>>,
     Str("grid "), Str("bad size."), Str("Nice nice nice nice nice ")}

IssueChunks ==
    {Str("Badge. "), Str("ok! "), Str("Error?\n"), Str("Debería"), Str(" "), Str("\f"),
     Str("."), Str("bad"), Str("mal")}

SuggestionChunks ==
    {Str("try a.try b.try c.try d."), Str("Fix e!fix f?fix g.fix h."),
     Str("should "), Str("improve"), Str(": "), Str("."), Str(" "), Str("Adjust margin. "),
     Str("try ") \o <<912>> \o Str(".try ") \o <<8147>> \o Str(".")}

MixedChunks ==
    {Str("Bad. "), Str("error! poor. "), Str("should improve x? "), Str("try y. "),
     Str("fix: z"), Str("good size. "), Str(" ")}

InitWith(texts) ==
    /\ pc = "request"
    /\ text \in texts
    /\ score = 0
    /\ categories = <<>>
    /\ issues = <<>>
    /\ suggestions = <<>>
    /\ formatted_output = <<>>

\* POST /analyze
analyze_text ==
    /\ pc = "request"
    /\ score' = calculate_score(text)
    /\ categories' = calculate_category_scores(text)
    /\ issues' = extract_issues(text)
    /\ suggestions' = extract_suggestions(text)
    /\ formatted_output' = format_output(score', categories', issues', suggestions')
    /\ pc' = "response"
    /\ UNCHANGED text

Next == analyze_text

Init == InitWith(TextsUpTo(MixedChunks, MaxChunks))
Spec == Init /\ [][Next]_vars

ScoreInit == InitWith(TextsUpTo(ScoreChunks, MaxChunks))
ScoreSpec == ScoreInit /\ [][Next]_vars

IssueInit == InitWith(TextsUpTo(IssueChunks, MaxChunks))
IssueSpec == IssueInit /\ [][Next]_vars

SuggestionInit == InitWith(TextsUpTo(SuggestionChunks, MaxChunks))
SuggestionSpec == SuggestionInit /\ [][Next]_vars

(***************************************************************************)
(* The properties.  What they count is stated here on its own terms, not   *)
(* through the operators of the pipeline.                                  *)
(***************************************************************************)
Responded == pc = "response"

CategorySet == {Str("contrast"), Str("spacing"), Str("alignment"), Str("hierarchy")}

\* The words of t: the maximal runs of letters, digits and underscores of
\* the lower-cased text, in the order they stand in it.
RECURSIVE WordsFrom(_, _, _)
WordsFrom(t, i, run) ==
    IF i > Len(t) THEN (IF run = <<>> THEN <<>> ELSE <<run>>)
    ELSE IF t[i] \in WordChars
         THEN WordsFrom(t, i + 1, Append(run, t[i]))
         ELSE (IF run = <<>> THEN <<>> ELSE <<run>>) \o WordsFrom(t, i + 1, <<>>)

WordsOf(t) == WordsFrom(str_lower(t), 1, <<>>)

\* how many of the words are one of the keywords, each keyword counted on
\* its own (a keyword written twice in the list counts twice)
WholeWordTotal(t, keywords) ==
    LET words == WordsOf(t)
    IN  Cardinality({<<k, j>> \in (1..Len(keywords)) \X (1..Len(words)) :
                        words[j] = keywords[k]})

PositiveTotal == WholeWordTotal(text, POSITIVE_WORDS)
NegativeTotal == WholeWordTotal(text, NEGATIVE_WORDS)
Mentions(c) == WholeWordTotal(text, dict_get(CATEGORY_KEYWORDS, c))

\* the category map has exactly the four keys, each once
HasCategoryKeys(cats) ==
    /\ Len(cats) = Cardinality(CategorySet)
    /\ {cats[k][1] : k \in 1..Len(cats)} = CategorySet

\* C1: the overall score is an integer in [0,100] and the category map has
\* exactly the keys contrast, spacing, alignment and hierarchy, each mapped
\* to an integer in [0,100], whether or not the text mentions the category.
C1_ScoresInRange ==
    Responded =>
        /\ score \in 0..100
        /\ HasCategoryKeys(categories)
        /\ \A c \in CategorySet : dict_get(categories, c) \in 0..100

\* a response whose tally overshoots 100 and that has a mentioned and an
\* unmentioned category
C1_Witness ==
    /\ Responded
    /\ 70 + 10 * PositiveTotal - 10 * NegativeTotal > 100
    /\ NegativeTotal > 0
    /\ Mentions(Str("alignment")) > 0
    /\ Mentions(Str("spacing")) = 0
    /\ score = 100

\* C2: the score is max(0, min(100, 70 + 10*P - 10*N)), P and N the numbers
\* of whole-word occurrences of the positive and of the negative words; a
\* text without keywords scores 70, ten positive occurrences score 100.
C2_ScoreFormula ==
    Responded =>
        LET P == PositiveTotal
            N == NegativeTotal
            tally == 70 + 10 * P - 10 * N
        IN  /\ score = (IF tally < 0 THEN 0 ELSE IF tally > 100 THEN 100 ELSE tally)
            /\ (P = 0 /\ N = 0 => score = 70)
            /\ (P = 10 /\ N = 0 => score = 100)
            /\ (P = 0 /\ N = 9 => score = 0)

C2_Witness ==
    /\ Responded
    /\ PositiveTotal = 10
    /\ NegativeTotal = 0
    /\ score = 100

\* the lists the program counts with
KeywordLists ==
    {POSITIVE_WORDS, NEGATIVE_WORDS} \cup {dict_get(CATEGORY_KEYWORDS, c) : c \in CategorySet}

\* C3: count_keyword_matches returns the sum over the keywords of the
\* case-insensitive whole-word occurrences of each: a keyword inside a
\* larger word counts 0 ("badge" for "bad"), N occurrences count N.
C3_WholeWordCount ==
    Responded =>
        /\ \A keywords \in KeywordLists :
              count_keyword_matches(text, keywords) = WholeWordTotal(text, keywords)
        /\ (text = Str("Badge ") => count_keyword_matches(text, <<Str("bad")>>) = 0)
        /\ (text = Str("bad size.") => count_keyword_matches(text, <<Str("bad")>>) = 1)
        /\ (text = Str("Badà") => count_keyword_matches(text, <<Str("bad")>>) = 0)
        /\ (text = Str("Bad") \o <<196736>> =>
               count_keyword_matches(text, <<Str("bad")>>) = 0)

\* "Bad" stands inside a larger word and is not counted, while a keyword
\* that occurs five times is counted five times
C3_Witness ==
    /\ Responded
    /\ text = Str("BadNice nice nice nice nice ge ")
    /\ count_keyword_matches(text, NEGATIVE_WORDS) = 0
    /\ count_keyword_matches(text, POSITIVE_WORDS) = 4

\* C4: a category without mention gets 75; a mentioned one gets 70 when the
\* text has no positive and no negative occurrence, else 50 + 50*P/(P+N)
\* truncated, a value in [50,100]; so all mentioned categories score alike.
C4_CategoryFormula ==
    Responded =>
        LET P == PositiveTotal
            N == NegativeTotal
            mentioned == {c \in CategorySet : Mentions(c) > 0}
        IN  /\ \A c \in CategorySet \ mentioned : dict_get(categories, c) = 75
            /\ \A c \in mentioned :
                  dict_get(categories, c) = IF P + N = 0 THEN 70 ELSE 50 + (50 * P) \div (P + N)
            /\ \A c \in mentioned : dict_get(categories, c) \in 50..100
            /\ \A c, d \in mentioned : dict_get(categories, c) = dict_get(categories, d)

\* two mentioned categories share a truncated ratio score, a third is neutral
C4_Witness ==
    /\ Responded
    /\ Mentions(Str("alignment")) > 0
    /\ Mentions(Str("hierarchy")) > 0
    /\ PositiveTotal = 5
    /\ NegativeTotal = 1
    /\ dict_get(categories, Str("alignment")) = 91
    /\ dict_get(categories, Str("hierarchy")) = 91
    /\ dict_get(categories, Str("spacing")) = 75

Range(seq) == {seq[k] : k \in 1..Len(seq)}

\* w occurs in s as a run of consecutive characters, whatever the case of s
OccursIn(w, s) ==
    LET folded == str_lower(s)
    IN  \E i \in 1..Len(folded) :
            i + Len(w) - 1 <= Len(folded) /\ SubSeq(folded, i, i + Len(w) - 1) = w

CriticalWords == Range(SEVERITY_KEYWORDS.critical)
WarningWords == Range(SEVERITY_KEYWORDS.warning)
IndicatorWords == Range(NEGATIVE_WORDS) \cup CriticalWords \cup WarningWords

Flagged(sentence) == sentence # <<>> /\ \E w \in IndicatorWords : OccursIn(w, sentence)

\* the trimmed sentences of the text, in the order of the text
TrimmedSentences ==
    LET sentences == re_split_sentences(text)
    IN  [k \in 1..Len(sentences) |-> str_strip(sentences[k])]

\* C5: extract_issues returns one Issue per non-empty trimmed sentence that
\* contains, as a case-insensitive substring, a negative, critical or warning
\* word, none for any other sentence, in the order of the sentences, and each
\* Issue's text is its trimmed sentence.
C5_IssuesAreFlaggedSentences ==
    Responded =>
        LET flagged == SelectSeq(TrimmedSentences, Flagged)
        IN  /\ Len(issues) = Len(flagged)
            /\ \A k \in 1..Len(issues) : issues[k].text = flagged[k]

\* three sentences, the middle one not flagged; "Badge" is flagged through
\* the substring "bad"
C5_Witness ==
    /\ Responded
    /\ Len(TrimmedSentences) >= 3
    /\ Len(issues) = 2
    /\ ~Flagged(TrimmedSentences[2])
    /\ issues[1].text = TrimmedSentences[1]
    /\ issues[2].text = TrimmedSentences[3]

\* C6: an Issue is critical if its sentence contains a critical keyword as a
\* case-insensitive substring (a warning keyword too or not), warning if it
\* contains no critical keyword but a warning keyword, info otherwise; info
\* is reached by a sentence flagged through a negative word alone.
C6_SeverityByFirstList ==
    Responded =>
        \A k \in 1..Len(issues) :
            LET sentence == issues[k].text
                critical == \E w \in CriticalWords : OccursIn(w, sentence)
                warning  == \E w \in WarningWords : OccursIn(w, sentence)
            IN  issues[k].severity =
                   IF critical THEN Str("critical")
                   ELSE IF warning THEN Str("warning")
                   ELSE Str("info")

\* a sentence with a critical and a warning keyword is critical, and a
\* sentence flagged by "error" alone is info
C6_Witness ==
    /\ Responded
    /\ Len(issues) = 2
    /\ OccursIn(Str("bad"), issues[1].text)
    /\ OccursIn(Str("debería"), issues[1].text)
    /\ issues[1].severity = Str("critical")
    /\ issues[2].text = Str("Error")
    /\ issues[2].severity = Str("info")

LastChar(s) == s[Len(s)]

\* C9: no Issue's text ends with '.', '!' or '?', the Issue of the last
\* sentence of a text that ends with a terminator included.
C9_NoTerminalPunctuation ==
    Responded => \A k \in 1..Len(issues) : LastChar(issues[k].text) \notin Terminators

PairwiseDistinct(seq) ==
    \A j, k \in 1..Len(seq) : j # k => seq[j] # seq[k]

\* the matches of the pattern stage, trimmed and capitalized
CleanedMatches ==
    LET matches == pattern_matches(text)
    IN  [k \in 1..Len(matches) |-> str_capitalize(str_strip(matches[k]))]

\* the non-empty values of seq, each at the place it is first seen
FirstSeen(seq) ==
    LET first == SelectSeq([k \in 1..Len(seq) |-> k],
                           LAMBDA k : seq[k] # <<>> /\ \A j \in 1..(k - 1) : seq[j] # seq[k])
    IN  [j \in 1..Len(first) |-> seq[first[j]]]

FirstFive(seq) == SubSeq(seq, 1, IF Len(seq) < 5 THEN Len(seq) ELSE 5)

\* C7 as stated: at most 5 suggestions, the pattern stage deduplicated in
\* first-seen order across the three patterns, and a text producing 8
\* pattern matches yields exactly 5 suggestions, no two of them equal.
C7_EightMatchesGiveFive ==
    Responded =>
        LET cleaned == CleanedMatches
        IN  /\ Len(suggestions) <= 5
            /\ (FirstSeen(cleaned) # <<>> => suggestions = FirstFive(FirstSeen(cleaned)))
            /\ (Len(cleaned) = 8 => Len(suggestions) = 5 /\ PairwiseDistinct(suggestions))

\* U+0399 U+0308 U+0301 and a full stop: the capitalized form of both
\* "ΐ." and "ΐ."
IOTA_DIALYTIKA_TONOS == <<921, 776, 769, 46>>

\* C7 amended: at most 5 suggestions; the pattern stage, when it finds any,
\* gives the first five of its distinct non-empty matches in first-seen
\* order across the three patterns; 8 pattern matches give exactly 5
\* suggestions, no two equal, when at least 5 of them are distinct, and
\* otherwise as many suggestions as there are distinct matches.  Matches are
\* equal when their capitalized forms are: two matches that differ only in
\* U+0390 and U+1FD3 give one suggestion.
C7_DistinctMatchesCapped ==
    Responded =>
        LET cleaned  == CleanedMatches
            distinct == Range(cleaned) \ {<<>>}
        IN  /\ Len(suggestions) <= 5
            /\ (FirstSeen(cleaned) # <<>> =>
                  /\ suggestions = FirstFive(FirstSeen(cleaned))
                  /\ PairwiseDistinct(suggestions))
            /\ (Len(cleaned) = 8 /\ Cardinality(distinct) >= 5 =>
                  Len(suggestions) = 5 /\ PairwiseDistinct(suggestions))
            /\ (Len(cleaned) = 8 /\ Cardinality(distinct) \in 1..4 =>
                  Len(suggestions) = Cardinality(distinct))
            /\ (text = Str("try ") \o <<912>> \o Str(".try ") \o <<8147>> \o Str(".") =>
                  suggestions = <<IOTA_DIALYTIKA_TONOS>>)

\* eight distinct matches are cut to five, and the matches of the second
\* pattern ("try") come before those of the third ("fix") that precede them
\* in the text
C7_Witness ==
    /\ Responded
    /\ text = Str("Fix e!fix f?fix g.fix h.try a.try b.try c.try d.")
    /\ Len(CleanedMatches) = 8
    /\ suggestions = Strs(<<"A.", "B.", "C.", "D.", "E!">>)

\* the places where part stands in s
Places(s, part) == {i \in 1..Len(s) : StartsAt(s, i, part)}

Has(s, part) == Places(s, part) # {}

\* the first place where part stands in s (part stands in s)
FirstPlace(s, part) == CHOOSE i \in Places(s, part) : \A j \in Places(s, part) : i <= j

EMPTY_TEXT_REPORT ==
    Str("# ") \o <<128202>> \o Str(" ANÁLISIS DE DISEÑO\n\n")
    \o Str("## ") \o <<9888, 65039>> \o Str(" Score General: **70/100**\n\n")
    \o Str("### ") \o <<128200>> \o Str(" Scores por Categoría\n\n")
    \o Str("**") \o <<127912>> \o Str(" Contraste:** ███████░░░ ")
    \o <<96>> \o Str("75/100") \o <<96>> \o Str("\n")
    \o Str("**") \o <<128207>> \o Str(" Espaciado:** ███████░░░ ")
    \o <<96>> \o Str("75/100") \o <<96>> \o Str("\n")
    \o Str("**") \o <<128208>> \o Str(" Alineación:** ███████░░░ ")
    \o <<96>> \o Str("75/100") \o <<96>> \o Str("\n")
    \o Str("**") \o <<127959, 65039>> \o Str(" Jerarquía:** ███████░░░ ")
    \o <<96>> \o Str("75/100") \o <<96>> \o Str("\n")
    \o Str("\n")
    \o Str("---\n")
    \o Str("*Análisis generado por Design Analysis API*")

SeverityNames == {Str("critical"), Str("warning"), Str("info")}

\* a complete report: every field has a value of its type
IsReport(s, cats, iss, sug, out) ==
    /\ s \in 0..100
    /\ HasCategoryKeys(cats)
    /\ \A c \in CategorySet : dict_get(cats, c) \in 0..100
    /\ \A k \in 1..Len(iss) :
          /\ iss[k].severity \in SeverityNames
          /\ Len(iss[k].text) > 0
    /\ Len(sug) <= 5
    /\ \A k \in 1..Len(sug) : Len(sug[k]) > 0
    /\ Len(out) > 0

\* C8: the pipeline has no failure outcome: every request is answered with a
\* complete report; for the empty text the report has score 70, every
\* category at 75, no issue, no suggestion, and a non-empty formatted_output
\* with the overall-score line and neither an issues nor a suggestions section.
C8_EmptyTextReport ==
    /\ pc = "request" =>
          LET s    == calculate_score(text)
              cats == calculate_category_scores(text)
              iss  == extract_issues(text)
              sug  == extract_suggestions(text)
          IN  IsReport(s, cats, iss, sug, format_output(s, cats, iss, sug))
    /\ Responded => IsReport(score, categories, issues, suggestions, formatted_output)
    /\ Responded /\ text = <<>> =>
          /\ score = 70
          /\ \A c \in CategorySet : dict_get(categories, c) = 75
          /\ issues = <<>>
          /\ suggestions = <<>>
          /\ formatted_output # <<>>
          /\ Has(formatted_output, Str("Score General: **70/100**"))
          /\ ~Has(formatted_output, Str("Issues Encontrados"))
          /\ ~Has(formatted_output, Str("Sugerencias de Mejora"))

C8_Witness ==
    /\ Responded
    /\ text = <<>>
    /\ formatted_output = EMPTY_TEXT_REPORT

IssuesOf(sev) == SelectSeq(issues, LAMBDA i : i.severity = sev)

RECURSIVE Concat(_)
Concat(lines) == IF lines = <<>> THEN <<>> ELSE Head(lines) \o Concat(Tail(lines))

\* a subsection as it must be rendered: header, one "- text" line per issue
\* of the group in their order, an empty line
Subsection(header, group) ==
    header \o Concat([k \in 1..Len(group) |-> Str("- ") \o group[k].text \o Str("\n")])
    \o Str("\n")

\* the subsection stands in the output and no further issue line follows it
RendersExactly(out, header, group) ==
    LET block == Subsection(header, group)
    IN  /\ Has(out, block)
        /\ LET after == FirstPlace(out, block) + Len(block)
           IN  SubSeq(out, after, after + 1) # Str("- ")

Numeral == Strs(<<"1", "2", "3", "4", "5">>)

Subsections ==
    <<[header |-> CRITICAL_HEADER, severity |-> Str("critical")],
      [header |-> WARNING_HEADER, severity |-> Str("warning")],
      [header |-> INFO_HEADER, severity |-> Str("info")]>>

\* C10: the issues section appears iff there are issues and the suggestions
\* section iff there are suggestions; the subsections come in the order
\* critical, warning, info, each only when an issue has that severity and
\* with exactly the issues of that severity in their original order;
\* suggestions are numbered consecutively from 1.
C10_SectionsOfTheReport ==
    Responded =>
        LET out == formatted_output
        IN  /\ Has(out, ISSUES_HEADER) <=> issues # <<>>
            /\ Has(out, SUGGESTIONS_HEADER) <=> suggestions # <<>>
            /\ \A n \in 1..3 :
                  LET sub   == Subsections[n]
                      group == IssuesOf(sub.severity)
                  IN  /\ Has(out, sub.header) <=> group # <<>>
                      /\ group # <<>> =>
                            /\ RendersExactly(out, sub.header, group)
                            /\ FirstPlace(out, ISSUES_HEADER) < FirstPlace(out, sub.header)
            /\ \A m, n \in 1..3 :
                  /\ m < n
                  /\ Has(out, Subsections[m].header)
                  /\ Has(out, Subsections[n].header)
                  => FirstPlace(out, Subsections[m].header)
                        < FirstPlace(out, Subsections[n].header)
            /\ suggestions # <<>> =>
                  Has(out, SUGGESTIONS_HEADER
                           \o Concat([k \in 1..Len(suggestions) |->
                                         Numeral[k] \o Str(". ") \o suggestions[k] \o Str("\n")])
                           \o Str("\n---\n"))

\* issues of the three severities, two of them critical with an info issue
\* between them in the text, and two suggestions
C10_Witness ==
    /\ Responded
    /\ Len(issues) = 4
    /\ issues[1].severity = Str("critical")
    /\ issues[2].severity = Str("info")
    /\ issues[3].severity = Str("critical")
    /\ issues[4].severity = Str("warning")
    /\ issues[1].text # issues[3].text
    /\ Len(suggestions) = 2
    /\ Has(formatted_output,
           CRITICAL_HEADER \o Str("- Bad\n- poor\n\n")
           \o WARNING_HEADER \o Str("- should improve x\n\n")
           \o INFO_HEADER \o Str("- error\n\n")
           \o SUGGESTIONS_HEADER \o Str("1. Improve x?\n2. X?\n\n"))
=============================================================================
